---- MODULE Spec2Model ----
(***************************************************************************)
(* A model of mimicus/featureedit_p3.py: the feature catalog, the reader   *)
(* of the features that modify_file edits, check_feature_change_valid,     *)
(* _insert_into_mmap and FeatureEdit.modify_file.                          *)
(*                                                                         *)
(* A document is a sequence of bytes (integers 0..255).  Python str values *)
(* that reach the buffer are sequences of code points and are encoded by   *)
(* Encode.  Offsets are 0-based as in the source; sequence indices are     *)
(* 1-based, so the byte at offset p is buf[p + 1].                         *)
(*                                                                         *)
(* Feature values are records [t, v]: t is the Python type ("int", "bool", *)
(* "float", or "exc" for an Exception instance) and v the value; a float   *)
(* is held in fixed point, v counting units of 1e-7.                       *)
(***************************************************************************)
EXTENDS Integers, Sequences, FiniteSets, TLC

(***************************************************************************)
(* Bounds of the model.                                                    *)
(***************************************************************************)
\* largest increase of a counter feature that a request asks for
MaxIncrease == 2
\* largest metadata class count that a request asks for
MaxCount == 3
\* largest growth of the size feature that a request asks for
MaxPad == 6

(***************************************************************************)
(* Bytes and strings.                                                      *)
(***************************************************************************)
DigitBytes == 48..57
\* perl \w (and [\w\d]) on a byte string
WordBytes == (48..57) \cup (65..90) \cup (97..122) \cup {95}
\* perl \s
SpaceBytes == {9, 10, 11, 12, 13, 32}
LowerBytes == 97..122
UpperBytes == 65..90

\* the least element of a non-empty set of integers
Min(S) == CHOOSE x \in S : \A y \in S : x <= y
Abs(n) == IF n < 0 THEN -n ELSE n

\* s[i ..] starts with lit (i is a 1-based index)
LitAt(s, i, lit) ==
  /\ i >= 1
  /\ i + Len(lit) - 1 <= Len(s)
  /\ SubSeq(s, i, i + Len(lit) - 1) = lit

\* Python: s * n  (empty when n <= 0)
RECURSIVE Repeat(_, _)
Repeat(s, n) == IF n <= 0 THEN <<>> ELSE s \o Repeat(s, n - 1)

\* Python: str.encode() (UTF-8) of a sequence of code points below 2048
RECURSIVE Encode(_)
Encode(str) ==
  IF str = <<>> THEN <<>>
  ELSE LET c == Head(str)
       IN (IF c < 128 THEN <<c>> ELSE <<192 + (c \div 64), 128 + (c % 64)>>)
          \o Encode(Tail(str))

\* Python: str(n) for an integer n, as code points
RECURSIVE DigitsOf(_)
DigitsOf(n) == IF n < 10 THEN <<48 + n>> ELSE DigitsOf(n \div 10) \o <<48 + (n % 10)>>
StrInt(n) == IF n < 0 THEN <<45>> \o DigitsOf(-n) ELSE DigitsOf(n)

\* Python: int(s) for a sequence of ASCII digits
RECURSIVE IntOf(_)
IntOf(s) == IF s = <<>> THEN 0 ELSE 10 * IntOf(SubSeq(s, 1, Len(s) - 1)) + (s[Len(s)] - 48)

(***************************************************************************)
(* The regular expressions of the reader.  A pattern is a sequence of      *)
(* elements: a literal, one byte outside a class, a greedy run of one or   *)
(* more bytes of a class (always followed by an element that cannot start  *)
(* with a byte of the class, so that no backtracking is needed), or one of *)
(* a prefix-free set of literals.                                          *)
(***************************************************************************)
RECURSIVE RunEnd(_, _, _)
RunEnd(s, i, c) == IF i <= Len(s) /\ s[i] \in c THEN RunEnd(s, i + 1, c) ELSE i

\* the index after the match of pat[k ..] at index i of s, or 0 when there is none
RECURSIVE MatchEnd(_, _, _, _)
MatchEnd(pat, k, s, i) ==
  IF k > Len(pat) THEN i
  ELSE LET e == pat[k]
       IN CASE e.k = "lit" ->
                 IF LitAt(s, i, e.s) THEN MatchEnd(pat, k + 1, s, i + Len(e.s)) ELSE 0
            [] e.k = "notin" ->
                 IF i <= Len(s) /\ s[i] \notin e.c THEN MatchEnd(pat, k + 1, s, i + 1) ELSE 0
            [] e.k = "plus" ->
                 LET j == RunEnd(s, i, e.c)
                 IN IF j > i THEN MatchEnd(pat, k + 1, s, j) ELSE 0
            [] e.k = "alt" ->
                 LET hits == {a \in e.a : LitAt(s, i, a)}
                 IN IF hits = {} THEN 0
                    ELSE MatchEnd(pat, k + 1, s, i + Len(CHOOSE a \in hits : TRUE))

\* the index after the match at index i of the first alternative of alts (a
\* sequence of patterns) that matches there, or 0
RECURSIVE AnyMatchEnd(_, _, _, _)
AnyMatchEnd(alts, a, s, i) ==
  IF a > Len(alts) THEN 0
  ELSE IF MatchEnd(alts[a], 1, s, i) > 0 THEN MatchEnd(alts[a], 1, s, i)
  ELSE AnyMatchEnd(alts, a + 1, s, i)

\* the least element of a set of positive integers, or 0 when it is empty
MinOrZero(S) == IF S = {} THEN 0 ELSE Min(S)
\* the greatest element of a set of natural numbers, or 0 when it is empty
MaxOrZero(S) == IF S = {} THEN 0 ELSE CHOOSE x \in S : \A y \in S : y <= x

\* perl: while (/alt1|alt2/g) {...}: the start indices of the successive
\* matches, each search resuming where the previous match ended
RECURSIVE MatchStarts(_, _, _)
RECURSIVE MatchStartsAt(_, _, _)
MatchStarts(alts, s, i) ==
  MatchStartsAt(alts, s, MinOrZero({j \in i..Len(s) : AnyMatchEnd(alts, 1, s, j) > 0}))
\* the match that starts at index j (0: there is none) and the matches after it
MatchStartsAt(alts, s, j) ==
  IF j = 0 THEN <<>> ELSE <<j>> \o MatchStarts(alts, s, AnyMatchEnd(alts, 1, s, j))

\* Of a set of matches, each a one-element sequence that holds a record with
\* a field at (the index where the match starts), or <<>> for no match: the
\* match that starts first, or <<>>.
First(M) ==
  IF M \subseteq {<<>>} THEN <<>>
  ELSE CHOOSE m \in M \ {<<>>} : \A n \in M \ {<<>>} : m[1].at <= n[1].at

\* perl: while (/.../g) {$c++} print $c ; python: int(r) if len(r) > 1 else 0
CountMatches(alts, s) == Len(MatchStarts(alts, s, 1))

\* the regular expressions of the counters, each at the line of its getter
Rx ==
  \* line 586: /\d+\s+\d+\s+obj/
  [ count_obj |->
      << [k |-> "plus", c |-> DigitBytes],
         [k |-> "plus", c |-> SpaceBytes],
         [k |-> "plus", c |-> DigitBytes],
         [k |-> "plus", c |-> SpaceBytes],
         [k |-> "lit", s |-> <<111,98,106>>] >>,
  \* line 591: /\s+endobj\s+/
    count_endobj |->
      << [k |-> "plus", c |-> SpaceBytes],
         [k |-> "lit", s |-> <<101,110,100,111,98,106>>],
         [k |-> "plus", c |-> SpaceBytes] >>,
  \* line 596: /[^\w]stream\s+/
    count_stream |->
      << [k |-> "notin", c |-> WordBytes],
         [k |-> "lit", s |-> <<115,116,114,101,97,109>>],
         [k |-> "plus", c |-> SpaceBytes] >>,
  \* line 601: /[^\w]endstream\s+/
    count_endstream |->
      << [k |-> "notin", c |-> WordBytes],
         [k |-> "lit", s |-> <<101,110,100,115,116,114,101,97,109>>],
         [k |-> "plus", c |-> SpaceBytes] >>,
  \* line 606: /[^\w\d]xref[^\w\d]/
    count_xref |->
      << [k |-> "notin", c |-> WordBytes],
         [k |-> "lit", s |-> <<120,114,101,102>>],
         [k |-> "notin", c |-> WordBytes] >>,
  \* line 611: /[^\w\d]trailer[^\w\d]/
    count_trailer |->
      << [k |-> "notin", c |-> WordBytes],
         [k |-> "lit", s |-> <<116,114,97,105,108,101,114>>],
         [k |-> "notin", c |-> WordBytes] >>,
  \* line 616: /[^\w\d]startxref[^\w\d]/
    count_startxref |->
      << [k |-> "notin", c |-> WordBytes],
         [k |-> "lit", s |-> <<115,116,97,114,116,120,114,101,102>>],
         [k |-> "notin", c |-> WordBytes] >>,
  \* line 621: /%EOF/
    count_eof |->
      << [k |-> "lit", s |-> <<37,69,79,70>>] >>,
  \* line 626: /\/Page[^\w\d]/
    count_page |->
      << [k |-> "lit", s |-> <<47,80,97,103,101>>],
         [k |-> "notin", c |-> WordBytes] >>,
  \* line 631: /\/ObjStm[^\w\d]/
    count_objstm |->
      << [k |-> "lit", s |-> <<47,79,98,106,83,116,109>>],
         [k |-> "notin", c |-> WordBytes] >>,
  \* line 637: /\/JS[^\w\d]/
    count_js |->
      << [k |-> "lit", s |-> <<47,74,83>>],
         [k |-> "notin", c |-> WordBytes] >>,
  \* line 642: /\/JavaScript[^\w\d]/
    count_javascript |->
      << [k |-> "lit", s |-> <<47,74,97,118,97,83,99,114,105,112,116>>],
         [k |-> "notin", c |-> WordBytes] >>,
  \* line 647: /\/(OpenAction|AA)[^\w\d]/
    count_action |->
      << [k |-> "lit", s |-> <<47>>],
         [k |-> "alt", a |-> {<<79,112,101,110,65,99,116,105,111,110>>, <<65,65>>}],
         [k |-> "notin", c |-> WordBytes] >>,
  \* line 653: /(\/AcroForm)[^\w\d]/
    count_acroform |->
      << [k |-> "lit", s |-> <<47,65,99,114,111,70,111,114,109>>],
         [k |-> "notin", c |-> WordBytes] >>,
  \* line 658: /(\/Font)[^\w\d]/
    count_font |->
      << [k |-> "lit", s |-> <<47,70,111,110,116>>],
         [k |-> "notin", c |-> WordBytes] >>,
  \* line 1196: /\/(P|#50)(a|#61)(g|#67)(e|#65)[^\w\d]/
    count_page_obs |->
      << [k |-> "lit", s |-> <<47>>],
         [k |-> "alt", a |-> {<<80>>, <<35,53,48>>}],
         [k |-> "alt", a |-> {<<97>>, <<35,54,49>>}],
         [k |-> "alt", a |-> {<<103>>, <<35,54,55>>}],
         [k |-> "alt", a |-> {<<101>>, <<35,54,53>>}],
         [k |-> "notin", c |-> WordBytes] >>,
  \* line 1201: /\/(O|#4[fF])(b|#62)(j|#6[aA])(S|#53)(t|#74)(m|#6[Dd])[^\w\d]/
    count_objstm_obs |->
      << [k |-> "lit", s |-> <<47>>],
         [k |-> "alt", a |-> {<<79>>, <<35,52,102>>, <<35,52,70>>}],
         [k |-> "alt", a |-> {<<98>>, <<35,54,50>>}],
         [k |-> "alt", a |-> {<<106>>, <<35,54,97>>, <<35,54,65>>}],
         [k |-> "alt", a |-> {<<83>>, <<35,53,51>>}],
         [k |-> "alt", a |-> {<<116>>, <<35,55,52>>}],
         [k |-> "alt", a |-> {<<109>>, <<35,54,68>>, <<35,54,100>>}],
         [k |-> "notin", c |-> WordBytes] >>,
  \* line 1206: /\/(J|#4[aA])(S|#53)[^\w\d]/
    count_js_obs |->
      << [k |-> "lit", s |-> <<47>>],
         [k |-> "alt", a |-> {<<74>>, <<35,52,97>>, <<35,52,65>>}],
         [k |-> "alt", a |-> {<<83>>, <<35,53,51>>}],
         [k |-> "notin", c |-> WordBytes] >>,
  \* line 1211: /\/(J|#4[aA])(a|#61)(v|#76)(a|#61)(S|#53)(c|#63)(r|#72)(i|#69)(p|#70)(t|#74)[^\w\d]/
    count_javascript_obs |->
      << [k |-> "lit", s |-> <<47>>],
         [k |-> "alt", a |-> {<<74>>, <<35,52,97>>, <<35,52,65>>}],
         [k |-> "alt", a |-> {<<97>>, <<35,54,49>>}],
         [k |-> "alt", a |-> {<<118>>, <<35,55,54>>}],
         [k |-> "alt", a |-> {<<97>>, <<35,54,49>>}],
         [k |-> "alt", a |-> {<<83>>, <<35,53,51>>}],
         [k |-> "alt", a |-> {<<99>>, <<35,54,51>>}],
         [k |-> "alt", a |-> {<<114>>, <<35,55,50>>}],
         [k |-> "alt", a |-> {<<105>>, <<35,54,57>>}],
         [k |-> "alt", a |-> {<<112>>, <<35,55,48>>}],
         [k |-> "alt", a |-> {<<116>>, <<35,55,52>>}],
         [k |-> "notin", c |-> WordBytes] >>,
  \* line 1221: /\/(A|#41)(c|#63)(r|#72)(o|#6[fF])(F|#46)(o|#6[fF])(r|#72)(m|#6[dD])[^\w\d]/
    count_acroform_obs |->
      << [k |-> "lit", s |-> <<47>>],
         [k |-> "alt", a |-> {<<65>>, <<35,52,49>>}],
         [k |-> "alt", a |-> {<<99>>, <<35,54,51>>}],
         [k |-> "alt", a |-> {<<114>>, <<35,55,50>>}],
         [k |-> "alt", a |-> {<<111>>, <<35,54,102>>, <<35,54,70>>}],
         [k |-> "alt", a |-> {<<70>>, <<35,52,54>>}],
         [k |-> "alt", a |-> {<<111>>, <<35,54,102>>, <<35,54,70>>}],
         [k |-> "alt", a |-> {<<114>>, <<35,55,50>>}],
         [k |-> "alt", a |-> {<<109>>, <<35,54,100>>, <<35,54,68>>}],
         [k |-> "notin", c |-> WordBytes] >>,
  \* line 1226: /\/(F|#46)(o|#6[fF])(n|#6[eE])(t|#74)[^\w\d]/
    count_font_obs |->
      << [k |-> "lit", s |-> <<47>>],
         [k |-> "alt", a |-> {<<70>>, <<35,52,54>>}],
         [k |-> "alt", a |-> {<<111>>, <<35,54,102>>, <<35,54,70>>}],
         [k |-> "alt", a |-> {<<110>>, <<35,54,101>>, <<35,54,69>>}],
         [k |-> "alt", a |-> {<<116>>, <<35,55,52>>}],
         [k |-> "notin", c |-> WordBytes] >>,
  \* line 1216: /\/(O|#4F)(p|#70)(e|#65)(n|#6[eE])(A|#41)(c|#63)(t|#74)(i|#69)(o|#6[fF])(n|#6[eE])[^\w\d]  (first alternative)/
    count_action_obs_open |->
      << [k |-> "lit", s |-> <<47>>],
         [k |-> "alt", a |-> {<<79>>, <<35,52,70>>}],
         [k |-> "alt", a |-> {<<112>>, <<35,55,48>>}],
         [k |-> "alt", a |-> {<<101>>, <<35,54,53>>}],
         [k |-> "alt", a |-> {<<110>>, <<35,54,101>>, <<35,54,69>>}],
         [k |-> "alt", a |-> {<<65>>, <<35,52,49>>}],
         [k |-> "alt", a |-> {<<99>>, <<35,54,51>>}],
         [k |-> "alt", a |-> {<<116>>, <<35,55,52>>}],
         [k |-> "alt", a |-> {<<105>>, <<35,54,57>>}],
         [k |-> "alt", a |-> {<<111>>, <<35,54,102>>, <<35,54,70>>}],
         [k |-> "alt", a |-> {<<110>>, <<35,54,101>>, <<35,54,69>>}],
         [k |-> "notin", c |-> WordBytes] >>,
  \* line 1216: /\/(A|#41)(A|#41)[^\w\d]  (second alternative)/
    count_action_obs_aa |->
      << [k |-> "lit", s |-> <<47>>],
         [k |-> "alt", a |-> {<<65>>, <<35,52,49>>}],
         [k |-> "alt", a |-> {<<65>>, <<35,52,49>>}],
         [k |-> "notin", c |-> WordBytes] >> ]
_pdfrate_feature_descriptions ==
  [
     author_dot                 |-> [type |-> "int", lo |-> [k |-> "lit", v |-> 0], hi |-> [k |-> "lit", v |-> 24], edit |-> "y"],
     author_lc                  |-> [type |-> "int", lo |-> [k |-> "lit", v |-> 0], hi |-> [k |-> "lit", v |-> 158], edit |-> "y"],
     author_len                 |-> [type |-> "int", lo |-> [k |-> "lit", v |-> 0], hi |-> [k |-> "lit", v |-> 288], edit |-> "m"],
     author_mismatch            |-> [type |-> "int", lo |-> [k |-> "FileDefined"], hi |-> [k |-> "lit", v |-> 45], edit |-> "m"],
     author_num                 |-> [type |-> "int", lo |-> [k |-> "lit", v |-> 0], hi |-> [k |-> "lit", v |-> 63], edit |-> "y"],
     author_oth                 |-> [type |-> "int", lo |-> [k |-> "lit", v |-> 0], hi |-> [k |-> "lit", v |-> 79], edit |-> "y"],
     author_uc                  |-> [type |-> "int", lo |-> [k |-> "lit", v |-> 0], hi |-> [k |-> "lit", v |-> 108], edit |-> "y"],
     box_nonother_types         |-> [type |-> "int", lo |-> [k |-> "FileDefined"], hi |-> [k |-> "lit", v |-> 2684], edit |-> "y"],
     box_other_only             |-> [type |-> "bool", lo |-> [k |-> "lit", v |-> 0], hi |-> [k |-> "lit", v |-> 1], edit |-> "m"],
     company_mismatch           |-> [type |-> "int", lo |-> [k |-> "FileDefined"], hi |-> [k |-> "lit", v |-> 2], edit |-> "m"],
     count_acroform             |-> [type |-> "int", lo |-> [k |-> "FileDefined"], hi |-> [k |-> "lit", v |-> 7], edit |-> "y"],
     count_acroform_obs         |-> [type |-> "int", lo |-> [k |-> "FileDefined"], hi |-> [k |-> "lit", v |-> 1], edit |-> "y"],
     count_action               |-> [type |-> "int", lo |-> [k |-> "FileDefined"], hi |-> [k |-> "lit", v |-> 815], edit |-> "y"],
     count_action_obs           |-> [type |-> "int", lo |-> [k |-> "FileDefined"], hi |-> [k |-> "lit", v |-> 1], edit |-> "y"],
     count_box_a4               |-> [type |-> "int", lo |-> [k |-> "FileDefined"], hi |-> [k |-> "lit", v |-> 34], edit |-> "y"],
     count_box_legal            |-> [type |-> "int", lo |-> [k |-> "FileDefined"], hi |-> [k |-> "lit", v |-> 268], edit |-> "y"],
     count_box_letter           |-> [type |-> "int", lo |-> [k |-> "FileDefined"], hi |-> [k |-> "lit", v |-> 2684], edit |-> "y"],
     count_box_other            |-> [type |-> "int", lo |-> [k |-> "FileDefined"], hi |-> [k |-> "lit", v |-> 12916], edit |-> "y"],
     count_box_overlap          |-> [type |-> "int", lo |-> [k |-> "FileDefined"], hi |-> [k |-> "lit", v |-> 10], edit |-> "y"],
     count_endobj               |-> [type |-> "int", lo |-> [k |-> "FileDefined"], hi |-> [k |-> "lit", v |-> 19632], edit |-> "y"],
     count_endstream            |-> [type |-> "int", lo |-> [k |-> "FileDefined"], hi |-> [k |-> "lit", v |-> 6668], edit |-> "y"],
     count_eof                  |-> [type |-> "int", lo |-> [k |-> "FileDefined"], hi |-> [k |-> "lit", v |-> 24], edit |-> "y"],
     count_font                 |-> [type |-> "int", lo |-> [k |-> "FileDefined"], hi |-> [k |-> "lit", v |-> 7333], edit |-> "y"],
     count_font_obs             |-> [type |-> "int", lo |-> [k |-> "FileDefined"], hi |-> [k |-> "lit", v |-> 5], edit |-> "y"],
     count_image_large          |-> [type |-> "int", lo |-> [k |-> "FileDefined"], hi |-> [k |-> "lit", v |-> 35], edit |-> "y"],
     count_image_med            |-> [type |-> "int", lo |-> [k |-> "FileDefined"], hi |-> [k |-> "lit", v |-> 278], edit |-> "y"],
     count_image_small          |-> [type |-> "int", lo |-> [k |-> "FileDefined"], hi |-> [k |-> "lit", v |-> 311], edit |-> "y"],
     count_image_total          |-> [type |-> "int", lo |-> [k |-> "FileDefined"], hi |-> [k |-> "lit", v |-> 4542], edit |-> "n"],
     count_image_xlarge         |-> [type |-> "int", lo |-> [k |-> "FileDefined"], hi |-> [k |-> "lit", v |-> 3], edit |-> "y"],
     count_image_xsmall         |-> [type |-> "int", lo |-> [k |-> "FileDefined"], hi |-> [k |-> "lit", v |-> 4525], edit |-> "y"],
     count_javascript           |-> [type |-> "int", lo |-> [k |-> "FileDefined"], hi |-> [k |-> "lit", v |-> 404], edit |-> "y"],
     count_javascript_obs       |-> [type |-> "int", lo |-> [k |-> "FileDefined"], hi |-> [k |-> "lit", v |-> 2], edit |-> "y"],
     count_js                   |-> [type |-> "int", lo |-> [k |-> "FileDefined"], hi |-> [k |-> "lit", v |-> 404], edit |-> "y"],
     count_js_obs               |-> [type |-> "int", lo |-> [k |-> "FileDefined"], hi |-> [k |-> "lit", v |-> 2], edit |-> "y"],
     count_obj                  |-> [type |-> "int", lo |-> [k |-> "FileDefined"], hi |-> [k |-> "lit", v |-> 19632], edit |-> "y"],
     count_objstm               |-> [type |-> "int", lo |-> [k |-> "FileDefined"], hi |-> [k |-> "lit", v |-> 1036], edit |-> "y"],
     count_objstm_obs           |-> [type |-> "int", lo |-> [k |-> "FileDefined"], hi |-> [k |-> "lit", v |-> 1], edit |-> "y"],
     count_page                 |-> [type |-> "int", lo |-> [k |-> "FileDefined"], hi |-> [k |-> "lit", v |-> 1341], edit |-> "y"],
     count_page_obs             |-> [type |-> "int", lo |-> [k |-> "FileDefined"], hi |-> [k |-> "lit", v |-> 6], edit |-> "y"],
     count_startxref            |-> [type |-> "int", lo |-> [k |-> "FileDefined"], hi |-> [k |-> "lit", v |-> 24], edit |-> "y"],
     count_stream               |-> [type |-> "int", lo |-> [k |-> "FileDefined"], hi |-> [k |-> "lit", v |-> 6668], edit |-> "y"],
     count_stream_diff          |-> [type |-> "int", lo |-> [k |-> "lit", v |-> -2], hi |-> [k |-> "lit", v |-> 69], edit |-> "m"],
     count_trailer              |-> [type |-> "int", lo |-> [k |-> "FileDefined"], hi |-> [k |-> "lit", v |-> 46], edit |-> "y"],
     count_xref                 |-> [type |-> "int", lo |-> [k |-> "FileDefined"], hi |-> [k |-> "lit", v |-> 46], edit |-> "y"],
     createdate_dot             |-> [type |-> "int", lo |-> [k |-> "lit", v |-> 0], hi |-> [k |-> "lit", v |-> 1], edit |-> "n"],
     createdate_mismatch        |-> [type |-> "int", lo |-> [k |-> "FileDefined"], hi |-> [k |-> "lit", v |-> 92], edit |-> "m"],
     createdate_ts              |-> [type |-> "int", lo |-> [k |-> "lit", v |-> 0], hi |-> [k |-> "lit", v |-> 2058951292], edit |-> "y"],
     createdate_tz              |-> [type |-> "int", lo |-> [k |-> "lit", v |-> -36000], hi |-> [k |-> "lit", v |-> 46800], edit |-> "y"],
     createdate_version_ratio   |-> [type |-> "float", lo |-> [k |-> "real", s |-> "-1.0"], hi |-> [k |-> "real", s |-> "7326.0"], edit |-> "m"],
     creator_dot                |-> [type |-> "int", lo |-> [k |-> "lit", v |-> 0], hi |-> [k |-> "lit", v |-> 5], edit |-> "y"],
     creator_lc                 |-> [type |-> "int", lo |-> [k |-> "lit", v |-> 0], hi |-> [k |-> "lit", v |-> 46], edit |-> "y"],
     creator_len                |-> [type |-> "int", lo |-> [k |-> "lit", v |-> 0], hi |-> [k |-> "lit", v |-> 166], edit |-> "m"],
     creator_mismatch           |-> [type |-> "int", lo |-> [k |-> "FileDefined"], hi |-> [k |-> "lit", v |-> 45], edit |-> "m"],
     creator_num                |-> [type |-> "int", lo |-> [k |-> "lit", v |-> 0], hi |-> [k |-> "lit", v |-> 105], edit |-> "y"],
     creator_oth                |-> [type |-> "int", lo |-> [k |-> "lit", v |-> 0], hi |-> [k |-> "lit", v |-> 64], edit |-> "y"],
     creator_uc                 |-> [type |-> "int", lo |-> [k |-> "lit", v |-> 0], hi |-> [k |-> "lit", v |-> 31], edit |-> "y"],
     delta_ts                   |-> [type |-> "int", lo |-> [k |-> "lit", v |-> -1279940312], hi |-> [k |-> "lit", v |-> 1294753248], edit |-> "n"],
     delta_tz                   |-> [type |-> "int", lo |-> [k |-> "lit", v |-> -57600], hi |-> [k |-> "lit", v |-> 46800], edit |-> "n"],
     image_mismatch             |-> [type |-> "int", lo |-> [k |-> "FileDefined"], hi |-> [k |-> "lit", v |-> 207], edit |-> "m"],
     image_totalpx              |-> [type |-> "int", lo |-> [k |-> "FileDefined"], hi |-> [k |-> "lit", v |-> 119549960], edit |-> "m"],
     keywords_dot               |-> [type |-> "int", lo |-> [k |-> "lit", v |-> 0], hi |-> [k |-> "lit", v |-> 5], edit |-> "y"],
     keywords_lc                |-> [type |-> "int", lo |-> [k |-> "lit", v |-> 0], hi |-> [k |-> "lit", v |-> 291], edit |-> "y"],
     keywords_len               |-> [type |-> "int", lo |-> [k |-> "lit", v |-> 0], hi |-> [k |-> "lit", v |-> 446], edit |-> "m"],
     keywords_mismatch          |-> [type |-> "int", lo |-> [k |-> "FileDefined"], hi |-> [k |-> "lit", v |-> 19], edit |-> "m"],
     keywords_num               |-> [type |-> "int", lo |-> [k |-> "lit", v |-> 0], hi |-> [k |-> "lit", v |-> 102], edit |-> "y"],
     keywords_oth               |-> [type |-> "int", lo |-> [k |-> "lit", v |-> 0], hi |-> [k |-> "lit", v |-> 185], edit |-> "y"],
     keywords_uc                |-> [type |-> "int", lo |-> [k |-> "lit", v |-> 0], hi |-> [k |-> "lit", v |-> 164], edit |-> "y"],
     len_obj_avg                |-> [type |-> "float", lo |-> [k |-> "real", s |-> "0.1"], hi |-> [k |-> "real", s |-> "382922.0"], edit |-> "m"],
     len_obj_max                |-> [type |-> "int", lo |-> [k |-> "FileDefined"], hi |-> [k |-> "lit", v |-> 4161352], edit |-> "m"],
     len_obj_min                |-> [type |-> "int", lo |-> [k |-> "lit", v |-> 6], hi |-> [k |-> "FileDefined"], edit |-> "m"],
     len_stream_avg             |-> [type |-> "float", lo |-> [k |-> "real", s |-> "0.0"], hi |-> [k |-> "real", s |-> "1531433.0"], edit |-> "m"],
     len_stream_max             |-> [type |-> "int", lo |-> [k |-> "FileDefined"], hi |-> [k |-> "lit", v |-> 4610074], edit |-> "m"],
     len_stream_min             |-> [type |-> "int", lo |-> [k |-> "lit", v |-> 0], hi |-> [k |-> "FileDefined"], edit |-> "m"],
     moddate_dot                |-> [type |-> "int", lo |-> [k |-> "lit", v |-> 0], hi |-> [k |-> "lit", v |-> 1], edit |-> "n"],
     moddate_mismatch           |-> [type |-> "int", lo |-> [k |-> "FileDefined"], hi |-> [k |-> "lit", v |-> 23], edit |-> "m"],
     moddate_ts                 |-> [type |-> "int", lo |-> [k |-> "lit", v |-> 0], hi |-> [k |-> "lit", v |-> 2058951292], edit |-> "y"],
     moddate_tz                 |-> [type |-> "int", lo |-> [k |-> "lit", v |-> -36000], hi |-> [k |-> "lit", v |-> 46800], edit |-> "y"],
     moddate_version_ratio      |-> [type |-> "float", lo |-> [k |-> "real", s |-> "0.1"], hi |-> [k |-> "real", s |-> "7390.0"], edit |-> "m"],
     pdfid0_dot                 |-> [type |-> "int", lo |-> [k |-> "lit", v |-> 0], hi |-> [k |-> "lit", v |-> 1], edit |-> "m"],
     pdfid0_lc                  |-> [type |-> "int", lo |-> [k |-> "lit", v |-> 0], hi |-> [k |-> "lit", v |-> 21], edit |-> "m"],
     pdfid0_len                 |-> [type |-> "int", lo |-> [k |-> "lit", v |-> 0], hi |-> [k |-> "lit", v |-> 46], edit |-> "m"],
     pdfid0_mismatch            |-> [type |-> "int", lo |-> [k |-> "FileDefined"], hi |-> [k |-> "lit", v |-> 3], edit |-> "m"],
     pdfid0_num                 |-> [type |-> "int", lo |-> [k |-> "lit", v |-> 0], hi |-> [k |-> "lit", v |-> 44], edit |-> "m"],
     pdfid0_oth                 |-> [type |-> "int", lo |-> [k |-> "lit", v |-> 0], hi |-> [k |-> "lit", v |-> 1], edit |-> "m"],
     pdfid0_uc                  |-> [type |-> "int", lo |-> [k |-> "lit", v |-> 0], hi |-> [k |-> "lit", v |-> 21], edit |-> "m"],
     pdfid1_dot                 |-> [type |-> "int", lo |-> [k |-> "lit", v |-> 0], hi |-> [k |-> "lit", v |-> 1], edit |-> "m"],
     pdfid1_lc                  |-> [type |-> "int", lo |-> [k |-> "lit", v |-> 0], hi |-> [k |-> "lit", v |-> 21], edit |-> "m"],
     pdfid1_len                 |-> [type |-> "int", lo |-> [k |-> "lit", v |-> 0], hi |-> [k |-> "lit", v |-> 32], edit |-> "m"],
     pdfid1_mismatch            |-> [type |-> "int", lo |-> [k |-> "FileDefined"], hi |-> [k |-> "lit", v |-> 23], edit |-> "m"],
     pdfid1_num                 |-> [type |-> "int", lo |-> [k |-> "lit", v |-> 0], hi |-> [k |-> "lit", v |-> 32], edit |-> "m"],
     pdfid1_oth                 |-> [type |-> "int", lo |-> [k |-> "lit", v |-> 0], hi |-> [k |-> "lit", v |-> 1], edit |-> "m"],
     pdfid1_uc                  |-> [type |-> "int", lo |-> [k |-> "lit", v |-> 0], hi |-> [k |-> "lit", v |-> 22], edit |-> "m"],
     pdfid_mismatch             |-> [type |-> "bool", lo |-> [k |-> "lit", v |-> 0], hi |-> [k |-> "lit", v |-> 1], edit |-> "m"],
     pos_acroform_avg           |-> [type |-> "float", lo |-> [k |-> "FileDefined"], hi |-> [k |-> "real", s |-> "1.0"], edit |-> "m"],
     pos_acroform_max           |-> [type |-> "float", lo |-> [k |-> "FileDefined"], hi |-> [k |-> "real", s |-> "1.0"], edit |-> "m"],
     pos_acroform_min           |-> [type |-> "float", lo |-> [k |-> "real", s |-> "0.0"], hi |-> [k |-> "real", s |-> "1"], edit |-> "m"],
     pos_box_avg                |-> [type |-> "float", lo |-> [k |-> "FileDefined"], hi |-> [k |-> "real", s |-> "1.0"], edit |-> "m"],
     pos_box_max                |-> [type |-> "float", lo |-> [k |-> "FileDefined"], hi |-> [k |-> "real", s |-> "1.0"], edit |-> "m"],
     pos_box_min                |-> [type |-> "float", lo |-> [k |-> "real", s |-> "0.0"], hi |-> [k |-> "real", s |-> "1.0"], edit |-> "n"],
     pos_eof_avg                |-> [type |-> "float", lo |-> [k |-> "FileDefined"], hi |-> [k |-> "real", s |-> "1.0"], edit |-> "m"],
     pos_eof_max                |-> [type |-> "float", lo |-> [k |-> "FileDefined"], hi |-> [k |-> "real", s |-> "1.0"], edit |-> "n"],
     pos_eof_min                |-> [type |-> "float", lo |-> [k |-> "real", s |-> "0.0"], hi |-> [k |-> "FileDefined"], edit |-> "m"],
     pos_image_avg              |-> [type |-> "float", lo |-> [k |-> "FileDefined"], hi |-> [k |-> "real", s |-> "1.0"], edit |-> "m"],
     pos_image_max              |-> [type |-> "float", lo |-> [k |-> "FileDefined"], hi |-> [k |-> "real", s |-> "1.0"], edit |-> "m"],
     pos_image_min              |-> [type |-> "float", lo |-> [k |-> "real", s |-> "0.0"], hi |-> [k |-> "real", s |-> "1.0"], edit |-> "m"],
     pos_page_avg               |-> [type |-> "float", lo |-> [k |-> "FileDefined"], hi |-> [k |-> "real", s |-> "1.0"], edit |-> "m"],
     pos_page_max               |-> [type |-> "float", lo |-> [k |-> "FileDefined"], hi |-> [k |-> "real", s |-> "1.0"], edit |-> "m"],
     pos_page_min               |-> [type |-> "float", lo |-> [k |-> "real", s |-> "0.0"], hi |-> [k |-> "real", s |-> "1.0"], edit |-> "m"],
     producer_dot               |-> [type |-> "int", lo |-> [k |-> "lit", v |-> 0], hi |-> [k |-> "lit", v |-> 1962], edit |-> "y"],
     producer_lc                |-> [type |-> "int", lo |-> [k |-> "lit", v |-> 0], hi |-> [k |-> "lit", v |-> 7343], edit |-> "y"],
     producer_len               |-> [type |-> "int", lo |-> [k |-> "lit", v |-> 0], hi |-> [k |-> "lit", v |-> 32566], edit |-> "m"],
     producer_mismatch          |-> [type |-> "int", lo |-> [k |-> "FileDefined"], hi |-> [k |-> "lit", v |-> 9], edit |-> "m"],
     producer_num               |-> [type |-> "int", lo |-> [k |-> "lit", v |-> 0], hi |-> [k |-> "lit", v |-> 25302], edit |-> "y"],
     producer_oth               |-> [type |-> "int", lo |-> [k |-> "lit", v |-> 0], hi |-> [k |-> "lit", v |-> 9233], edit |-> "y"],
     producer_uc                |-> [type |-> "int", lo |-> [k |-> "lit", v |-> 0], hi |-> [k |-> "lit", v |-> 13], edit |-> "y"],
     ratio_imagepx_size         |-> [type |-> "float", lo |-> [k |-> "real", s |-> "0.0"], hi |-> [k |-> "real", s |-> "559.0"], edit |-> "m"],
     ratio_size_obj             |-> [type |-> "float", lo |-> [k |-> "real", s |-> "24.0"], hi |-> [k |-> "real", s |-> "382971.0"], edit |-> "m"],
     ratio_size_page            |-> [type |-> "float", lo |-> [k |-> "real", s |-> "266.0"], hi |-> [k |-> "real", s |-> "11500000000000.0"], edit |-> "m"],
     ratio_size_stream          |-> [type |-> "float", lo |-> [k |-> "real", s |-> "316.0"], hi |-> [k |-> "real", s |-> "39680000000.0"], edit |-> "m"],
     size                       |-> [type |-> "int", lo |-> [k |-> "FileDefined"], hi |-> [k |-> "lit", v |-> 10000000], edit |-> "y"],
     subject_dot                |-> [type |-> "int", lo |-> [k |-> "lit", v |-> 0], hi |-> [k |-> "lit", v |-> 5], edit |-> "y"],
     subject_lc                 |-> [type |-> "int", lo |-> [k |-> "lit", v |-> 0], hi |-> [k |-> "lit", v |-> 256], edit |-> "y"],
     subject_len                |-> [type |-> "int", lo |-> [k |-> "lit", v |-> 0], hi |-> [k |-> "lit", v |-> 413], edit |-> "m"],
     subject_mismatch           |-> [type |-> "int", lo |-> [k |-> "FileDefined"], hi |-> [k |-> "lit", v |-> 15], edit |-> "m"],
     subject_num                |-> [type |-> "int", lo |-> [k |-> "lit", v |-> 0], hi |-> [k |-> "lit", v |-> 113], edit |-> "y"],
     subject_oth                |-> [type |-> "int", lo |-> [k |-> "lit", v |-> 0], hi |-> [k |-> "lit", v |-> 82], edit |-> "y"],
     subject_uc                 |-> [type |-> "int", lo |-> [k |-> "lit", v |-> 0], hi |-> [k |-> "lit", v |-> 94], edit |-> "y"],
     title_dot                  |-> [type |-> "int", lo |-> [k |-> "lit", v |-> 0], hi |-> [k |-> "lit", v |-> 11], edit |-> "y"],
     title_lc                   |-> [type |-> "int", lo |-> [k |-> "lit", v |-> 0], hi |-> [k |-> "lit", v |-> 183], edit |-> "y"],
     title_len                  |-> [type |-> "int", lo |-> [k |-> "lit", v |-> 0], hi |-> [k |-> "lit", v |-> 698], edit |-> "m"],
     title_mismatch             |-> [type |-> "int", lo |-> [k |-> "FileDefined"], hi |-> [k |-> "lit", v |-> 517], edit |-> "m"],
     title_num                  |-> [type |-> "int", lo |-> [k |-> "lit", v |-> 0], hi |-> [k |-> "lit", v |-> 420], edit |-> "y"],
     title_oth                  |-> [type |-> "int", lo |-> [k |-> "lit", v |-> 0], hi |-> [k |-> "lit", v |-> 160], edit |-> "y"],
     title_uc                   |-> [type |-> "int", lo |-> [k |-> "lit", v |-> 0], hi |-> [k |-> "lit", v |-> 74], edit |-> "y"],
     version                    |-> [type |-> "int", lo |-> [k |-> "lit", v |-> 1], hi |-> [k |-> "lit", v |-> 8], edit |-> "y"]
  ]
_pdfrate_feature_names ==
  << "author_dot", "author_lc", "author_len", "author_mismatch",
     "author_num", "author_oth", "author_uc", "box_nonother_types",
     "box_other_only", "company_mismatch", "count_acroform", "count_acroform_obs",
     "count_action", "count_action_obs", "count_box_a4", "count_box_legal",
     "count_box_letter", "count_box_other", "count_box_overlap", "count_endobj",
     "count_endstream", "count_eof", "count_font", "count_font_obs",
     "count_image_large", "count_image_med", "count_image_small", "count_image_total",
     "count_image_xlarge", "count_image_xsmall", "count_javascript", "count_javascript_obs",
     "count_js", "count_js_obs", "count_obj", "count_objstm",
     "count_objstm_obs", "count_page", "count_page_obs", "count_startxref",
     "count_stream", "count_stream_diff", "count_trailer", "count_xref",
     "createdate_dot", "createdate_mismatch", "createdate_ts", "createdate_tz",
     "createdate_version_ratio", "creator_dot", "creator_lc", "creator_len",
     "creator_mismatch", "creator_num", "creator_oth", "creator_uc",
     "delta_ts", "delta_tz", "image_mismatch", "image_totalpx",
     "keywords_dot", "keywords_lc", "keywords_len", "keywords_mismatch",
     "keywords_num", "keywords_oth", "keywords_uc", "len_obj_avg",
     "len_obj_max", "len_obj_min", "len_stream_avg", "len_stream_max",
     "len_stream_min", "moddate_dot", "moddate_mismatch", "moddate_ts",
     "moddate_tz", "moddate_version_ratio", "pdfid0_dot", "pdfid0_lc",
     "pdfid0_len", "pdfid0_mismatch", "pdfid0_num", "pdfid0_oth",
     "pdfid0_uc", "pdfid1_dot", "pdfid1_lc", "pdfid1_len",
     "pdfid1_mismatch", "pdfid1_num", "pdfid1_oth", "pdfid1_uc",
     "pdfid_mismatch", "pos_acroform_avg", "pos_acroform_max", "pos_acroform_min",
     "pos_box_avg", "pos_box_max", "pos_box_min", "pos_eof_avg",
     "pos_eof_max", "pos_eof_min", "pos_image_avg", "pos_image_max",
     "pos_image_min", "pos_page_avg", "pos_page_max", "pos_page_min",
     "producer_dot", "producer_lc", "producer_len", "producer_mismatch",
     "producer_num", "producer_oth", "producer_uc", "ratio_imagepx_size",
     "ratio_size_obj", "ratio_size_page", "ratio_size_stream", "size",
     "subject_dot", "subject_lc", "subject_len", "subject_mismatch",
     "subject_num", "subject_oth", "subject_uc", "title_dot",
     "title_lc", "title_len", "title_mismatch", "title_num",
     "title_oth", "title_uc", "version" >>
_incrementable_feats ==
  [
     count_acroform         |-> <<47,65,99,114,111,70,111,114,109>>,
     count_acroform_obs     |-> <<47,65,99,114,111,35,52,54,111,114,109>>,
     count_action           |-> <<47,65,65>>,
     count_action_obs       |-> <<47,79,112,101,110,35,52,49,99,116,105,111,110>>,
     count_box_a4           |-> <<91,48,32,48,32,53,57,55,32,56,52,50,93>>,
     count_box_legal        |-> <<91,48,32,48,32,54,49,49,32,49,48,48,55,93>>,
     count_box_letter       |-> <<91,48,32,48,32,54,49,49,32,55,57,49,93>>,
     count_box_other        |-> <<91,51,51,32,51,52,32,51,53,32,51,54,93>>,
     count_box_overlap      |-> <<91,48,32,48,32,53,57,55,32,55,57,49,93>>,
     count_endobj           |-> <<101,110,100,111,98,106>>,
     count_endstream        |-> <<101,110,100,115,116,114,101,97,109>>,
     count_eof              |-> <<37,69,79,70>>,
     count_font             |-> <<47,70,111,110,116>>,
     count_font_obs         |-> <<47,70,35,54,102,110,116>>,
     count_image_large      |-> <<60,60,32,47,72,101,105,103,104,116,32,56,56,56,47,87,105,100,116,104,32,56,56,56,62,62>>,
     count_image_med        |-> <<60,60,32,47,72,101,105,103,104,116,32,50,53,53,47,87,105,100,116,104,32,50,53,53,62,62>>,
     count_image_small      |-> <<60,60,32,47,72,101,105,103,104,116,32,54,53,47,87,105,100,116,104,32,54,53,62,62>>,
     count_image_xlarge     |-> <<60,60,32,47,72,101,105,103,104,116,32,56,56,56,56,47,87,105,100,116,104,32,56,56,56,56,62,62>>,
     count_image_xsmall     |-> <<60,60,32,47,72,101,105,103,104,116,32,49,47,87,105,100,116,104,32,49,62,62>>,
     count_javascript       |-> <<47,74,97,118,97,83,99,114,105,112,116>>,
     count_javascript_obs   |-> <<47,74,97,118,35,54,49,83,99,114,105,112,116>>,
     count_js               |-> <<47,74,83>>,
     count_js_obs           |-> <<47,35,52,65,83>>,
     count_obj              |-> <<50,50,32,48,32,111,98,106>>,
     count_objstm           |-> <<47,79,98,106,83,116,109>>,
     count_objstm_obs       |-> <<47,79,98,35,54,97,83,116,109>>,
     count_page             |-> <<47,80,97,103,101>>,
     count_page_obs         |-> <<47,35,53,48,97,103,101>>,
     count_startxref        |-> <<115,116,97,114,116,120,114,101,102>>,
     count_stream           |-> <<115,116,114,101,97,109>>,
     count_trailer          |-> <<116,114,97,105,108,101,114>>,
     count_xref             |-> <<120,114,101,102>>
  ]

(***************************************************************************)
(* The reader: the get_* methods that compute a feature from the bytes of  *)
(* a document.                                                             *)
(***************************************************************************)
\* Python: bytes.splitlines()
RECURSIVE SplitLines(_)
SplitLines(s) ==
  IF s = <<>> THEN <<>>
  ELSE LET brk == {i \in 1..Len(s) : s[i] \in {10, 13}}
       IN IF brk = {} THEN <<s>>
          ELSE LET i == CHOOSE x \in brk : \A y \in brk : x <= y
                   n == IF s[i] = 13 /\ i < Len(s) /\ s[i + 1] = 10 THEN 2 ELSE 1
               IN <<SubSeq(s, 1, i - 1)>> \o SplitLines(SubSeq(s, i + n, Len(s)))

\* perl -l: print $1 for every capture, each followed by a newline
RECURSIVE PrintLines(_)
PrintLines(caps) == IF caps = <<>> THEN <<>> ELSE Head(caps) \o <<10>> \o PrintLines(Tail(caps))

\* Python: bytes.replace(old, new)
RECURSIVE Replace(_, _, _)
Replace(s, old, new) ==
  IF s = <<>> THEN <<>>
  ELSE IF LitAt(s, 1, old) THEN new \o Replace(SubSeq(s, Len(old) + 1, Len(s)), old, new)
  ELSE <<Head(s)>> \o Replace(Tail(s), old, new)

\* the replacements of line 190 that are not identities (b'\(' -> b'(' and
\* b'\)' -> b')'), then those of line 191
_sanitize_PDF_literal_string(pdfstr) ==
  LET a == Replace(Replace(pdfstr, <<92, 40>>, <<40>>), <<92, 41>>, <<41>>)
  IN Replace(Replace(Replace(a, <<92, 10>>, <<>>), <<13, 10>>, <<10>>), <<13>>, <<10>>)

\* (.*?X): the least n such that close starts at p + n and s[p .. p+n-1] holds
\* no newline; -1 when there is none
RECURSIVE LazyUntil(_, _, _, _)
LazyUntil(s, p, n, close) ==
  IF p + n > Len(s) THEN -1
  ELSE IF LitAt(s, p + n, close) THEN n
  ELSE IF s[p + n] = 10 THEN -1
  ELSE LazyUntil(s, p, n + 1, close)

\* (.*?[^\\]?)\) : the length of the capture that starts at index p; -1 when
\* there is none
RECURSIVE LiteralCapture(_, _, _)
LiteralCapture(s, p, n) ==
  IF p + n > Len(s) THEN -1
  ELSE IF p + n + 1 <= Len(s) /\ s[p + n] # 92 /\ s[p + n + 1] = 41 THEN n + 1
  ELSE IF s[p + n] = 41 THEN n
  ELSE IF s[p + n] = 10 THEN -1
  ELSE LiteralCapture(s, p, n + 1)

\* /\/Key[^\w\d]*\((.*?[^\\]?)\)/ at index i: [capture start, capture length],
\* or <<>>; the greedy [^\w\d]* gives back bytes until a '(' opens a capture
LiteralFieldAt(s, i, key) ==
  IF ~LitAt(s, i, key) THEN <<>>
  ELSE LET from == i + Len(key)
           to == RunEnd(s, from, (0..255) \ WordBytes)
           opens == {q \in from..(to - 1) : s[q] = 40 /\ LiteralCapture(s, q + 1, 0) >= 0}
       IN IF opens = {} THEN <<>>
          ELSE LET q == CHOOSE x \in opens : \A y \in opens : y <= x
               IN <<q + 1, LiteralCapture(s, q + 1, 0)>>

\* print $1 while /\/Key[^\w\d]*\((.*?[^\\]?)\)/g : the captures, in order
RECURSIVE LiteralFields(_, _, _)
RECURSIVE LiteralFieldsAt(_, _, _)
LiteralFields(s, i, key) ==
  LiteralFieldsAt(s, key,
    LiteralFieldAt(s, MinOrZero({j \in i..Len(s) : LiteralFieldAt(s, j, key) # <<>>}), key))
\* the capture m (<<>>: there is none) and the captures after it
LiteralFieldsAt(s, key, m) ==
  IF m = <<>> THEN <<>>
  ELSE <<SubSeq(s, m[1], m[1] + m[2] - 1)>> \o LiteralFields(s, m[1] + m[2] + 1, key)

\* the capture of n bytes at index p as a match, no match when n < 0
TagCapture(s, p, n) == IF n < 0 THEN <<>> ELSE <<[at |-> p, cap |-> SubSeq(s, p, p + n - 1)]>>

\* print $1 while /open(.*?)close/g : [start index, capture] of every match,
\* the next one being the leftmost /open(.*?)close/ from index i on
RECURSIVE TagFields(_, _, _, _)
RECURSIVE TagFieldsAt(_, _, _, _)
TagFields(s, i, open, close) ==
  TagFieldsAt(s, open, close,
              First({IF LitAt(s, j, open)
                     THEN TagCapture(s, j + Len(open), LazyUntil(s, j + Len(open), 0, close))
                     ELSE <<>> : j \in i..Len(s)}))
\* the match m (<<>>: there is none) and the matches after it
TagFieldsAt(s, open, close, m) ==
  IF m = <<>> THEN <<>>
  ELSE m \o TagFields(s, m[1].at + Len(m[1].cap) + Len(close), open, close)

Caps(fields) == [i \in 1..Len(fields) |-> fields[i].cap]

\* the six metadata fields: the PDF literal key and, for producer, creator and
\* keywords, the XMP element whose matches are appended (r1 + r2)
MetaKey ==
  [author   |-> <<47,65,117,116,104,111,114>>,
   creator  |-> <<47,67,114,101,97,116,111,114>>,
   keywords |-> <<47,75,101,121,119,111,114,100,115>>,
   producer |-> <<47,80,114,111,100,117,99,101,114>>,
   subject  |-> <<47,83,117,98,106,101,99,116>>,
   title    |-> <<47,84,105,116,108,101>>]

\* __get_<field>_raw; the XMP elements are 'Producer>' ... '</',
\* 'CreatorTool>' ... '</' and '<pdf:Keywords>' ... '</pdf:Keywords>'
MetaRaw(s, field) ==
  LET r1 == PrintLines(LiteralFields(s, 1, MetaKey[field]))
      r2 == CASE field = "producer" ->
                   PrintLines(Caps(TagFields(s, 1, <<80,114,111,100,117,99,101,114,62>>,
                                             <<60,47>>)))
              [] field = "creator" ->
                   PrintLines(Caps(TagFields(s, 1, <<67,114,101,97,116,111,114,84,111,111,108,62>>,
                                             <<60,47>>)))
              [] field = "keywords" ->
                   PrintLines(Caps(TagFields(s, 1,
                                             <<60,112,100,102,58,75,101,121,119,111,114,100,115,62>>,
                                             <<60,47,112,100,102,58,75,101,121,119,111,114,100,115,62>>)))
              [] OTHER -> <<>>
  IN SplitLines(r1 \o r2)

\* r[-1] if r else ''
LastLine(raw) == IF raw = <<>> THEN <<>> ELSE raw[Len(raw)]

CountIn(str, class) == Cardinality({i \in 1..Len(str) : str[i] \in class})

\* the number of characters of the class that the suffix names in the value v
ClassCount(v, suffix) ==
  CASE suffix = "len" -> Len(v)
    [] suffix = "lc" -> CountIn(v, LowerBytes)
    [] suffix = "uc" -> CountIn(v, UpperBytes)
    [] suffix = "num" -> CountIn(v, DigitBytes)
    [] suffix = "dot" -> CountIn(v, {46})
    [] suffix = "oth" -> CountIn(v, (0..255) \ (LowerBytes \cup UpperBytes \cup DigitBytes \cup {46}))

\* len(set(raw))
Distinct(raw) == Cardinality({raw[i] : i \in 1..Len(raw)})

(***************************************************************************)
(* Dates.  calendar.timegm and time.gmtime are the proleptic Gregorian     *)
(* calendar; dateutil.parser.parse is modelled on the two formats the      *)
(* reader feeds it (14 digits, and ISO 8601 with an optional offset) and   *)
(* raises on anything else.  Years are 1970..2037, whose timestamps fit    *)
(* the integers of the model.                                              *)
(***************************************************************************)
IsLeap(y) == (y % 4 = 0 /\ y % 100 # 0) \/ y % 400 = 0
DaysInYear(y) == IF IsLeap(y) THEN 366 ELSE 365
DaysInMonth(y, m) ==
  IF m = 2 THEN (IF IsLeap(y) THEN 29 ELSE 28)
  ELSE IF m \in {4, 6, 9, 11} THEN 30 ELSE 31

\* days from 1970-01-01 to y-01-01 (negative before 1970)
RECURSIVE DaysBeforeYear(_)
DaysBeforeYear(y) ==
  IF y = 1970 THEN 0
  ELSE IF y > 1970 THEN DaysBeforeYear(y - 1) + DaysInYear(y - 1)
  ELSE DaysBeforeYear(y + 1) - DaysInYear(y)

\* days from y-01-01 to y-m-01
RECURSIVE DaysBeforeMonth(_, _)
DaysBeforeMonth(y, m) ==
  IF m <= 1 THEN 0 ELSE DaysBeforeMonth(y, m - 1) + DaysInMonth(y, m - 1)

\* the year that holds the day, counted from 1970-01-01; the search starts at y
RECURSIVE YearOfDay(_, _)
YearOfDay(days, y) == IF days < DaysBeforeYear(y + 1) THEN y ELSE YearOfDay(days, y + 1)

\* the month of the year y that holds its day doy (0 is January 1st)
RECURSIVE MonthOfDay(_, _, _)
MonthOfDay(y, doy, m) == IF doy < DaysBeforeMonth(y, m + 1) THEN m ELSE MonthOfDay(y, doy, m + 1)

\* the civil time of the second secs of the day days, which the year y holds
CivilOf(days, y, secs) ==
  LET doy == days - DaysBeforeYear(y)
      m == MonthOfDay(y, doy, 1)
  IN [tm_year |-> y, tm_mon |-> m, tm_mday |-> doy - DaysBeforeMonth(y, m) + 1,
      tm_hour |-> secs \div 3600, tm_min |-> (secs % 3600) \div 60, tm_sec |-> secs % 60]

\* time.gmtime(ts) for ts from 1969 on:
\* [tm_year, tm_mon, tm_mday, tm_hour, tm_min, tm_sec]
gmtime(ts) == CivilOf(ts \div 86400, YearOfDay(ts \div 86400, 1969), ts % 86400)

AllDigits(s) == s # <<>> /\ \A i \in 1..Len(s) : s[i] \in DigitBytes
\* Python: r[a:b] for 0-based a, b
Slice(r, a, b) == SubSeq(r, a + 1, IF b < Len(r) THEN b ELSE Len(r))

ValidCivil(Y, M, D, h, m, s) ==
  /\ Y \in 1969..2037 /\ M \in 1..12 /\ D \in 1..DaysInMonth(Y, M)
  /\ h \in 0..23 /\ m \in 0..59 /\ s \in 0..59

\* calendar.timegm of a valid UTC date, -1 (the except branch) otherwise
Timegm(Y, M, D, h, m, s) ==
  IF ValidCivil(Y, M, D, h, m, s)
  THEN (DaysBeforeYear(Y) + DaysBeforeMonth(Y, M) + D - 1) * 86400 + h * 3600 + m * 60 + s
  ELSE -1

\* __get_moddate_raw: print $1 while /\/ModDate\((.*?)\)/g  ('/ModDate(' ... ')')
ModDateRaw(s) ==
  SplitLines(PrintLines(Caps(TagFields(s, 1, <<47,77,111,100,68,97,116,101,40>>, <<41>>))))

\* the fields of D:YYYYMMDDHHmmSSOHH'mm that get_moddate_ts and
\* get_moddate_tz convert with int(); -1 when an int() raises
ModDateParts(r) ==
  LET part(a, b, min, dflt) ==
        IF Len(r) > min THEN (IF AllDigits(Slice(r, a, b)) THEN IntOf(Slice(r, a, b)) ELSE -1)
        ELSE dflt
  IN [Y |-> part(2, 6, 0, 0), M |-> part(6, 8, 6, 1), D |-> part(8, 10, 8, 1),
      h |-> part(10, 12, 10, 0), m |-> part(12, 14, 12, 0), s |-> part(14, 16, 14, 0),
      O |-> IF Len(r) > 16 THEN r[17] ELSE 90,
      HH2 |-> part(17, 19, 17, 0), mm2 |-> part(20, 22, 20, 0)]

\* len(r) < 6 or r[:2] != 'D:'
NoDate(r) == Len(r) < 6 \/ Slice(r, 0, 2) # <<68, 58>>

\* r is the last raw value and p its parts: -1 when r is no date or when the
\* try block raises
get_moddate_ts(s) ==
  LET r == LastLine(ModDateRaw(s))
      p == ModDateParts(r)
  IN IF NoDate(r) THEN -1
     ELSE IF \E f \in {"Y", "M", "D", "h", "m", "s", "HH2", "mm2"} : p[f] < 0 THEN -1
     ELSE Timegm(p.Y, p.M, p.D, p.h, p.m, p.s)

get_moddate_tz(s) ==
  LET r == LastLine(ModDateRaw(s))
      p == ModDateParts(r)
  IN IF NoDate(r) THEN -1
     ELSE IF p.HH2 < 0 \/ p.mm2 < 0 THEN -1
     ELSE IF p.O \in {43, 90} THEN p.HH2 * 3600 + p.mm2 * 60
     ELSE -(p.HH2 * 3600 + p.mm2 * 60)

\* the least length of a set of capture lengths in which -1 is no capture
LeastLen(L) == IF L \ {-1} = {} THEN -1 ELSE Min(L \ {-1})

\* /<x[am]p:CreateDate>(.*?)<\/x[am]p:CreateDate>/ at index i: the lazy
\* capture stops at the first closing tag unless a newline precedes it
CreateDateAt(s, i) ==
  IF \E o \in {<<60,120,97,112,58,67,114,101,97,116,101,68,97,116,101,62>>,
                <<60,120,109,112,58,67,114,101,97,116,101,68,97,116,101,62>>} : LitAt(s, i, o)
  THEN TagCapture(s, i + 16,
         LeastLen({LazyUntil(s, i + 16, 0, c) :
                     c \in {<<60,47,120,97,112,58,67,114,101,97,116,101,68,97,116,101,62>>,
                            <<60,47,120,109,112,58,67,114,101,97,116,101,68,97,116,101,62>>}}))
  ELSE <<>>

\* print @-[1], " ", $1 while /<x[am]p:CreateDate>(.*?)<\/x[am]p:CreateDate>/g
RECURSIVE CreateDateFields(_, _)
RECURSIVE CreateDateFieldsAt(_, _)
CreateDateFields(s, i) ==
  CreateDateFieldsAt(s, First({CreateDateAt(s, j) : j \in i..Len(s)}))
CreateDateFieldsAt(s, m) ==
  IF m = <<>> THEN <<>> ELSE m \o CreateDateFields(s, m[1].at + Len(m[1].cap) + 17)

\* __get_createdate_raw
CreateDateRaw(s) == SplitLines(PrintLines(Caps(CreateDateFields(s, 1))))

\* int(r[a:b]) for a slice of b - a digits, else -1
IsoNum(r, a, b) ==
  IF AllDigits(Slice(r, a, b)) /\ Len(Slice(r, a, b)) = b - a THEN IntOf(Slice(r, a, b)) ELSE -1

\* the civil time of YYYY-MM-DDTHH:MM:SS in seconds: [ok, secs], not ok when
\* r has another shape or names no date
IsoLocal(r) ==
  IF /\ Len(r) >= 19
     /\ r[5] = 45 /\ r[8] = 45 /\ r[11] = 84 /\ r[14] = 58 /\ r[17] = 58
  THEN [ok |-> ValidCivil(IsoNum(r, 0, 4), IsoNum(r, 5, 7), IsoNum(r, 8, 10),
                          IsoNum(r, 11, 13), IsoNum(r, 14, 16), IsoNum(r, 17, 19)),
        secs |-> Timegm(IsoNum(r, 0, 4), IsoNum(r, 5, 7), IsoNum(r, 8, 10),
                        IsoNum(r, 11, 13), IsoNum(r, 14, 16), IsoNum(r, 17, 19))]
  ELSE [ok |-> FALSE, secs |-> 0]

\* the time zone that follows the seconds: nothing, Z, +HH:MM or -HH:MM
IsoOffset(tail) ==
  IF tail = <<>> THEN [ok |-> TRUE, aware |-> FALSE, off |-> 0]
  ELSE IF tail = <<90>> THEN [ok |-> TRUE, aware |-> TRUE, off |-> 0]
  ELSE IF /\ Len(tail) = 6 /\ tail[1] \in {43, 45} /\ tail[4] = 58
          /\ IsoNum(tail, 1, 3) \in 0..23 /\ IsoNum(tail, 4, 6) \in 0..59
  THEN [ok |-> TRUE, aware |-> TRUE,
        off |-> (IF tail[1] = 43 THEN 1 ELSE -1)
                * (IsoNum(tail, 1, 3) * 3600 + IsoNum(tail, 4, 6) * 60)]
  ELSE [ok |-> FALSE, aware |-> FALSE, off |-> 0]

\* dateutil.parser.parse of YYYY-MM-DDTHH:MM:SS, alone or followed by Z or by
\* +HH:MM / -HH:MM (anything else raises):
\* [ok, local (seconds of the civil time), aware, off]
ParseIso(r) ==
  LET local == IsoLocal(r)
      z == IsoOffset(SubSeq(r, 20, Len(r)))
  IN [ok |-> local.ok /\ z.ok, local |-> local.secs, aware |-> z.aware, off |-> z.off]

\* int(calendar.timegm(timestamp.utctimetuple())), -1 when the parse raised
get_createdate_ts(s) ==
  LET raw == CreateDateRaw(s)
      d == ParseIso(LastLine(raw))
  IN IF raw = <<>> THEN -1 ELSE IF ~d.ok THEN -1 ELSE d.local - d.off

\* the seconds of strftime("%z"), -1 when the parse raised or gave no zone
get_createdate_tz(s) ==
  LET raw == CreateDateRaw(s)
      d == ParseIso(LastLine(raw))
  IN IF raw = <<>> THEN -1 ELSE IF ~d.ok \/ ~d.aware THEN -1 ELSE d.off

(***************************************************************************)
(* Page boxes and images.                                                  *)
(***************************************************************************)
\* [+|-]?(\d+\.?\d*|\d*\.?\d+) at index i: the index after the number, or 0
NumEnd(s, i) ==
  LET j == IF i <= Len(s) /\ s[i] \in {43, 124, 45} THEN i + 1 ELSE i
      d == RunEnd(s, j, DigitBytes)
  IN IF d > j
     THEN (IF d <= Len(s) /\ s[d] = 46 THEN RunEnd(s, d + 1, DigitBytes) ELSE d)
     ELSE IF j <= Len(s) /\ s[j] = 46 /\ RunEnd(s, j + 1, DigitBytes) > j + 1
          THEN RunEnd(s, j + 1, DigitBytes)
          ELSE 0

\* float(token) as [neg, int, frac]: the sign, the integer part and whether
\* the fraction is not zero (all that the box tests look at); a token that
\* begins with '|' makes float() raise, and no document of the model holds one
NumValue(tok) ==
  LET neg == tok[1] = 45
      body == IF tok[1] \in {43, 45} THEN Tail(tok) ELSE tok
      ip == RunEnd(body, 1, DigitBytes)
  IN [neg |-> neg,
      int |-> IntOf(SubSeq(body, 1, ip - 1)),
      frac |-> \E k \in (ip + 1)..Len(body) : body[k] \in 49..57]

\* /\[\s*(((num)\s+){3}(num))\s*\]/ from the index a on, where the next
\* number has to start; at is the index of the '[' and toks the numbers
\* already read.  The match, or <<>>.
RECURSIVE BoxFrom(_, _, _, _)
RECURSIVE BoxNumber(_, _, _, _, _)
BoxFrom(s, at, toks, a) == BoxNumber(s, at, toks, a, NumEnd(s, a))
\* the number s[a .. e-1] (e = 0: no number), then \s+ and the next number, or
\* after the fourth number \s*\]
BoxNumber(s, at, toks, a, e) ==
  IF e = 0 THEN <<>>
  ELSE IF Len(toks) = 3
  THEN (IF RunEnd(s, e, SpaceBytes) <= Len(s) /\ s[RunEnd(s, e, SpaceBytes)] = 93
        THEN <<[at |-> at, box |-> Append(toks, NumValue(SubSeq(s, a, e - 1))),
                end |-> RunEnd(s, e, SpaceBytes) + 1]>>
        ELSE <<>>)
  ELSE IF RunEnd(s, e, SpaceBytes) > e
  THEN BoxFrom(s, at, Append(toks, NumValue(SubSeq(s, a, e - 1))), RunEnd(s, e, SpaceBytes))
  ELSE <<>>

\* __get_boxes_raw
RECURSIVE Boxes(_, _)
RECURSIVE BoxesAt(_, _)
Boxes(s, i) ==
  BoxesAt(s, First({IF j <= Len(s) /\ s[j] = 91
                    THEN BoxFrom(s, j, <<>>, RunEnd(s, j + 1, SpaceBytes))
                    ELSE <<>> : j \in i..Len(s)}))
BoxesAt(s, m) == IF m = <<>> THEN <<>> ELSE <<m[1].box>> \o Boxes(s, m[1].end)

IsZero(x) == x.int = 0 /\ ~x.frac
\* lo <= x <= hi for integers 0 < lo <= hi
Within(x, lo, hi) == ~x.neg /\ x.int >= lo /\ (x.int < hi \/ (x.int = hi /\ ~x.frac))

is_box_a4(box) == IsZero(box[1]) /\ IsZero(box[2]) /\ Within(box[3], 596, 599) /\ Within(box[4], 841, 844)
is_box_letter(box) == IsZero(box[1]) /\ IsZero(box[2]) /\ Within(box[3], 610, 613) /\ Within(box[4], 790, 793)
is_box_overlap(box) == IsZero(box[1]) /\ IsZero(box[2]) /\ Within(box[3], 596, 599) /\ Within(box[4], 790, 793)
is_box_legal(box) == IsZero(box[1]) /\ IsZero(box[2]) /\ Within(box[3], 610, 613) /\ Within(box[4], 1006, 1009)
is_box_other(box) == ~(is_box_a4(box) \/ is_box_letter(box) \/ is_box_overlap(box) \/ is_box_legal(box))

IsKind(box, kind) ==
  CASE kind = "a4" -> is_box_a4(box)
    [] kind = "letter" -> is_box_letter(box)
    [] kind = "overlap" -> is_box_overlap(box)
    [] kind = "legal" -> is_box_legal(box)
    [] kind = "other" -> is_box_other(box)
    [] kind = "nonother" -> ~is_box_other(box)

CountKind(boxes, kind) == Cardinality({i \in 1..Len(boxes) : IsKind(boxes[i], kind)})

\* get_count_box_*, get_box_nonother_types
CountBoxes(s, kind) == CountKind(Boxes(s, 1), kind)

\* the index d if digits start there, else 0
DigitsAt(line, d) == IF RunEnd(line, d, DigitBytes) > d THEN d ELSE 0

\* int of the digits that start at index d, -1 when d = 0
NumberAt(line, d) ==
  IF d = 0 THEN -1 ELSE IntOf(SubSeq(line, d, RunEnd(line, d, DigitBytes) - 1))

\* the regular expression .*\/Key(?:\s|\n)+(\d+).* finds the last /Key of
\* a line: its number, or -1. /Key(?:\s|\n)+(\d+) at index i gives the index
\* of the digits, or 0
KeyNumber(line, key) ==
  NumberAt(line,
           MaxOrZero({IF LitAt(line, i, key) /\ RunEnd(line, i + Len(key), (SpaceBytes \cup (28..31))) > i + Len(key)
                      THEN DigitsAt(line, RunEnd(line, i + Len(key), (SpaceBytes \cup (28..31))))
                      ELSE 0 : i \in 1..Len(line)}))

\* /(<<[^<]*?\/Height\s+\d+.*?>>)/ at index i: the index after the match, or 0
RECURSIVE ImageEnd(_, _)
ImageEnd(s, j) ==
  IF j > Len(s) THEN 0
  ELSE LET h == <<47,72,101,105,103,104,116>>
           sp == RunEnd(s, j + 7, SpaceBytes)
           dg == RunEnd(s, sp, DigitBytes)
           n == LazyUntil(s, dg, 0, <<62, 62>>)
       IN IF LitAt(s, j, h) /\ sp > j + 7 /\ dg > sp /\ n >= 0 THEN dg + n + 2
          ELSE IF s[j] = 60 THEN 0
          ELSE ImageEnd(s, j + 1)

\* int(height) * int(width) when the line names a width, else nothing
ImageSize(line) ==
  LET ww == KeyNumber(line, <<47,87,105,100,116,104>>)
  IN IF ww >= 0 THEN <<KeyNumber(line, <<47,72,101,105,103,104,116>>) * ww>> ELSE <<>>

\* the match s[b .. e-1] (e = 0: no match), measured after tr/\r\n/  /
ImageMatch(s, b, e) ==
  IF e = 0 THEN <<>>
  ELSE <<[at |-> b, end |-> e,
          size |-> ImageSize([k \in 1..(e - b) |->
                                IF s[b + k - 1] \in {10, 13} THEN 32 ELSE s[b + k - 1]])]>>

\* __get_images_raw: height * width of every match that names one width
RECURSIVE Images(_, _)
RECURSIVE ImagesAt(_, _)
Images(s, i) ==
  ImagesAt(s, First({IF LitAt(s, j, <<60, 60>>) THEN ImageMatch(s, j, ImageEnd(s, j + 2))
                     ELSE <<>> : j \in i..Len(s)}))
ImagesAt(s, m) == IF m = <<>> THEN <<>> ELSE m[1].size \o Images(s, m[1].end)

\* the sizes above lo and, unless hi < 0, at most hi
CountSizes(im, lo, hi) ==
  Cardinality({i \in 1..Len(im) : im[i] > lo /\ (hi < 0 \/ im[i] <= hi)})

\* a variant that takes the byte in front of the digit for the digit
VersionDigitIndexEarly(s) ==
  LET at == {i \in 1..Len(s) : LitAt(s, i, <<37,80,68,70,45,49,46>>)
                                /\ i + 7 <= Len(s) /\ s[i + 7] \in DigitBytes}
  IN IF at = {} THEN 0 ELSE Min(at) + 6

\* print $1 while /%PDF-1\.(\d)/g : the index of the digit of the first match, or 0
VersionDigitIndex(s) ==
  LET at == {i \in 1..Len(s) : LitAt(s, i, <<37,80,68,70,45,49,46>>)
                                /\ i + 7 <= Len(s) /\ s[i + 7] \in DigitBytes}
  IN IF at = {} THEN 0 ELSE Min(at) + 7

\* int(r) if r else 0, for the digit at index i (0: no match)
get_version(s) ==
  LET i == VersionDigitIndex(s)
  IN IF i = 0 THEN 0 ELSE s[i] - 48

get_size(s) == Len(s)

\* the offset of the last 'startxref' between two non-word bytes, or the size
\* int(r[-2]) if len(r) > 1 else the default
LastOr(starts, default) == IF starts = <<>> THEN default ELSE starts[Len(starts)]

\* the cursor at the end of the file whatever it holds (for C17)
StartxrefPositionAtEnd(s) == get_size(s)
_get_startxref_position(s) == LastOr(MatchStarts(<<Rx.count_startxref>>, s, 1), get_size(s))

(***************************************************************************)
(* Feature values.                                                         *)
(***************************************************************************)
\* one unit of the fixed-point floats is 1e-7
FloatUnit == 10 * 1000 * 1000

IntV(n) == [t |-> "int", v |-> n]
BoolV(b) == [t |-> "bool", v |-> IF b THEN 1 ELSE 0]
FloatV(u) == [t |-> "float", v |-> u]
\* an Exception instance of the named class
ExcV(class) == [t |-> class, v |-> 0]

\* isinstance(x, Exception)
IsException(x) == x.t \notin {"int", "bool", "float"}

\* Python: a == b on numbers (True == 1, 2 == 2.0); two Exception instances,
\* or an Exception and a number, are never equal
PyEq(a, b) ==
  IF IsException(a) \/ IsException(b) THEN FALSE
  ELSE IF (a.t = "float") = (b.t = "float") THEN a.v = b.v
  ELSE LET f == IF a.t = "float" THEN a ELSE b
           n == IF a.t = "float" THEN b ELSE a
       IN f.v % FloatUnit = 0 /\ f.v \div FloatUnit = n.v

\* Python: abs(cur - val) < 1e-6 for a float val
NearEq(cur, val) ==
  IF cur.t = "float" THEN Abs(cur.v - val.v) < 10
  ELSE LET q == val.v \div FloatUnit
           r == val.v % FloatUnit
       IN (cur.v = q /\ r < 10) \/ (cur.v = q + 1 /\ FloatUnit - r < 10)

\* Python: a > b on numbers
PyGt(a, b) ==
  IF (a.t = "float") = (b.t = "float") THEN a.v > b.v
  ELSE IF a.t = "float" THEN a.v \div FloatUnit >= b.v /\ ~PyEq(a, b)
  ELSE a.v > b.v \div FloatUnit

(***************************************************************************)
(* get_<feature>: the features whose readers the model holds.              *)
(***************************************************************************)
\* the regular expression of every counter that is read by counting matches
CountRx ==
  [count_obj       |-> <<Rx.count_obj>>,       count_endobj     |-> <<Rx.count_endobj>>,
   count_stream    |-> <<Rx.count_stream>>,    count_endstream  |-> <<Rx.count_endstream>>,
   count_xref      |-> <<Rx.count_xref>>,      count_trailer    |-> <<Rx.count_trailer>>,
   count_startxref |-> <<Rx.count_startxref>>, count_eof        |-> <<Rx.count_eof>>,
   count_page      |-> <<Rx.count_page>>,      count_objstm     |-> <<Rx.count_objstm>>,
   count_js        |-> <<Rx.count_js>>,        count_javascript |-> <<Rx.count_javascript>>,
   count_action    |-> <<Rx.count_action>>,    count_acroform   |-> <<Rx.count_acroform>>,
   count_font      |-> <<Rx.count_font>>]

\* get_count_<x>_obs: the obfuscation-tolerant expression and the plain
\* counter that is subtracted from its count
ObsRx ==
  [count_page_obs       |-> [rx |-> <<Rx.count_page_obs>>, plain |-> "count_page"],
   count_objstm_obs     |-> [rx |-> <<Rx.count_objstm_obs>>, plain |-> "count_objstm"],
   count_js_obs         |-> [rx |-> <<Rx.count_js_obs>>, plain |-> "count_js"],
   count_javascript_obs |-> [rx |-> <<Rx.count_javascript_obs>>, plain |-> "count_javascript"],
   count_action_obs     |-> [rx |-> <<Rx.count_action_obs_open, Rx.count_action_obs_aa>>,
                             plain |-> "count_action"],
   count_acroform_obs   |-> [rx |-> <<Rx.count_acroform_obs>>, plain |-> "count_acroform"],
   count_font_obs       |-> [rx |-> <<Rx.count_font_obs>>, plain |-> "count_font"]]

BoxKind ==
  [count_box_a4 |-> "a4", count_box_legal |-> "legal", count_box_letter |-> "letter",
   count_box_other |-> "other", count_box_overlap |-> "overlap",
   box_nonother_types |-> "nonother"]

\* the pixel ranges (lo, hi] of get_count_image_*; hi = -1 is no upper limit
ImageRange ==
  [count_image_xsmall |-> <<-1, 4096>>, count_image_small |-> <<4096, 64000>>,
   count_image_med |-> <<64000, 786432>>, count_image_large |-> <<786432, 12582912>>,
   count_image_xlarge |-> <<12582912, -1>>, count_image_total |-> <<-1, -1>>]

MetaFields == {"author", "creator", "keywords", "producer", "subject", "title"}
MetaSuffixes == {"dot", "lc", "len", "mismatch", "num", "oth", "uc"}
\* the feature name of every field and suffix
MetaName ==
  [
   author   |-> [dot |-> "author_dot", lc |-> "author_lc", len |-> "author_len", mismatch |-> "author_mismatch", num |-> "author_num", oth |-> "author_oth", uc |-> "author_uc"],
   creator  |-> [dot |-> "creator_dot", lc |-> "creator_lc", len |-> "creator_len", mismatch |-> "creator_mismatch", num |-> "creator_num", oth |-> "creator_oth", uc |-> "creator_uc"],
   keywords |-> [dot |-> "keywords_dot", lc |-> "keywords_lc", len |-> "keywords_len", mismatch |-> "keywords_mismatch", num |-> "keywords_num", oth |-> "keywords_oth", uc |-> "keywords_uc"],
   producer |-> [dot |-> "producer_dot", lc |-> "producer_lc", len |-> "producer_len", mismatch |-> "producer_mismatch", num |-> "producer_num", oth |-> "producer_oth", uc |-> "producer_uc"],
   subject  |-> [dot |-> "subject_dot", lc |-> "subject_lc", len |-> "subject_len", mismatch |-> "subject_mismatch", num |-> "subject_num", oth |-> "subject_oth", uc |-> "subject_uc"],
   title    |-> [dot |-> "title_dot", lc |-> "title_lc", len |-> "title_len", mismatch |-> "title_mismatch", num |-> "title_num", oth |-> "title_oth", uc |-> "title_uc"]
  ]
MetaNames == {MetaName[p][x] : p \in MetaFields, x \in MetaSuffixes}
\* feat.startswith(prefix) and feat[len(prefix) + 1:]
MetaPrefix(f) == CHOOSE p \in MetaFields : \E x \in MetaSuffixes : MetaName[p][x] = f
MetaSuffix(f) == CHOOSE x \in MetaSuffixes : \E p \in MetaFields : MetaName[p][x] = f

\* int(r) - self.get_count_<x>() if len(r) > 1 else 0, for the count obs of
\* the obfuscation-tolerant expression
ObsCount(obs, plain) == IF obs = 0 THEN 0 ELSE obs - plain

\* int(ts / 86400.0 / v) if v != 0 else 0, and -1 when ts == -1
VersionRatio(ts, v) == IF ts = -1 THEN -1 ELSE IF v = 0 THEN 0 ELSE (ts \div 86400) \div v

RECURSIVE FixedRem(_, _, _)
FixedRem(p, n, k) == IF k = 0 THEN p ELSE (10 * FixedRem(p, n, k - 1)) % n

\* p / n for 0 <= p < n, truncated to k decimal places, in units of 10^-k
RECURSIVE FixedDiv(_, _, _)
FixedDiv(p, n, k) ==
  IF k = 0 THEN 0
  ELSE LET e == FixedDiv(p, n, k - 1)
           \* the remainder left after k - 1 places
           r == FixedRem(p, n, k - 1)
       IN 10 * e + (10 * r) \div n

\* the features that the model reads
ModelFeats ==
  DOMAIN CountRx \cup DOMAIN ObsRx \cup DOMAIN BoxKind \cup DOMAIN ImageRange \cup MetaNames
  \cup {"version", "size", "count_stream_diff", "box_other_only",
        "moddate_ts", "moddate_tz", "createdate_ts", "createdate_tz",
        "moddate_mismatch", "createdate_mismatch", "moddate_dot", "createdate_dot",
        "delta_ts", "delta_tz", "moddate_version_ratio", "createdate_version_ratio",
        "pos_eof_max"}

\* getattr(self, 'get_' + f)() on the document s
Get(f, s) ==
  CASE f \in DOMAIN CountRx -> IntV(CountMatches(CountRx[f], s))
    [] f \in DOMAIN ObsRx ->
         IntV(ObsCount(CountMatches(ObsRx[f].rx, s), CountMatches(CountRx[ObsRx[f].plain], s)))
    [] f \in DOMAIN BoxKind -> IntV(CountBoxes(s, BoxKind[f]))
    [] f \in DOMAIN ImageRange -> IntV(CountSizes(Images(s, 1), ImageRange[f][1], ImageRange[f][2]))
    [] f \in MetaNames ->
         \* get_<field>_<suffix>; __get_<field> is the last raw value, sanitized, or ''
         IntV(IF MetaSuffix(f) = "mismatch" THEN Distinct(MetaRaw(s, MetaPrefix(f)))
              ELSE ClassCount(_sanitize_PDF_literal_string(LastLine(MetaRaw(s, MetaPrefix(f)))),
                              MetaSuffix(f)))
    [] f = "version" -> IntV(get_version(s))
    [] f = "size" -> IntV(get_size(s))
    [] f = "count_stream_diff" ->
         IntV(CountMatches(CountRx.count_stream, s) - CountMatches(CountRx.count_endstream, s))
    [] f = "box_other_only" -> BoolV(CountBoxes(s, "nonother") = 0)
    [] f = "moddate_ts" -> IntV(get_moddate_ts(s))
    [] f = "moddate_tz" -> IntV(get_moddate_tz(s))
    [] f = "createdate_ts" -> IntV(get_createdate_ts(s))
    [] f = "createdate_tz" -> IntV(get_createdate_tz(s))
    [] f = "moddate_mismatch" -> IntV(Distinct(ModDateRaw(s)))
    [] f = "createdate_mismatch" -> IntV(Distinct(CreateDateRaw(s)))
    \* list.count('.') of a list of bytes objects
    [] f \in {"moddate_dot", "createdate_dot"} -> IntV(0)
    [] f = "pos_eof_max" ->
         \* max(__get_eof_positions_raw): the offset of the E of the last %EOF, or 0
         FloatV(FixedDiv(MaxOrZero({i \in 1..Len(s) : LitAt(s, i, <<37, 69, 79, 70>>)}),
                         get_size(s), 7))
    [] f = "delta_ts" -> IntV(get_createdate_ts(s) - get_moddate_ts(s))
    [] f = "delta_tz" -> IntV(get_createdate_tz(s) - get_moddate_tz(s))
    [] f = "moddate_version_ratio" -> IntV(VersionRatio(get_moddate_ts(s), get_version(s)))
    [] f = "createdate_version_ratio" -> IntV(VersionRatio(get_createdate_ts(s), get_version(s)))

(***************************************************************************)
(* check_feature_change_valid.  The outcome is True (BoolV(TRUE)) or an    *)
(* Exception instance; desc is the descriptor of the feature, current the  *)
(* value its getter returns.  The getter is called only when the first     *)
(* three tests pass.                                                       *)
(***************************************************************************)

\* a literal bound of a descriptor as a number
BoundV(b) == IntV(b.v)

\* a variant: the validator without the editability check of int features
CheckDescriptorAnyEdit(desc, current_value, feat_val) ==
  IF desc.type # feat_val.t THEN ExcV("TypeError")
  ELSE IF desc.edit # "y" /\ desc.type # "int" THEN ExcV("ReadOnlyFeatureError")
  ELSE IF feat_val.t = "bool" THEN BoolV(TRUE)
  ELSE IF (IF desc.lo.k = "FileDefined" THEN PyGt(current_value, feat_val)
           ELSE PyGt(BoundV(desc.lo), feat_val))
       THEN ExcV("MinimumExceededError")
  ELSE IF (IF desc.hi.k = "FileDefined" THEN PyGt(feat_val, current_value)
           ELSE PyGt(feat_val, BoundV(desc.hi)))
       THEN ExcV("MaximumExceededError")
  ELSE BoolV(TRUE)

\* a variant: the validator without the check of a FileDefined lower bound
CheckDescriptorNoFileLo(desc, current_value, feat_val) ==
  IF desc.type # feat_val.t THEN ExcV("TypeError")
  ELSE IF desc.edit # "y" THEN ExcV("ReadOnlyFeatureError")
  ELSE IF feat_val.t = "bool" THEN BoolV(TRUE)
  ELSE IF desc.lo.k # "FileDefined" /\ PyGt(BoundV(desc.lo), feat_val)
       THEN ExcV("MinimumExceededError")
  ELSE IF (IF desc.hi.k = "FileDefined" THEN PyGt(feat_val, current_value)
           ELSE PyGt(feat_val, BoundV(desc.hi)))
       THEN ExcV("MaximumExceededError")
  ELSE BoolV(TRUE)

\* a variant: the validator with the editability check in front of the type check
CheckDescriptorEditFirst(desc, current_value, feat_val) ==
  IF desc.edit # "y" THEN ExcV("ReadOnlyFeatureError")
  ELSE IF desc.type # feat_val.t THEN ExcV("TypeError")
  ELSE IF feat_val.t = "bool" THEN BoolV(TRUE)
  ELSE IF (IF desc.lo.k = "FileDefined" THEN PyGt(current_value, feat_val)
           ELSE PyGt(BoundV(desc.lo), feat_val))
       THEN ExcV("MinimumExceededError")
  ELSE IF (IF desc.hi.k = "FileDefined" THEN PyGt(feat_val, current_value)
           ELSE PyGt(feat_val, BoundV(desc.hi)))
       THEN ExcV("MaximumExceededError")
  ELSE BoolV(TRUE)

\* lines 1630-1653 on the descriptor feat_desc of the feature
CheckDescriptor(desc, current_value, feat_val) ==
  IF desc.type # feat_val.t THEN ExcV("TypeError")
  ELSE IF desc.edit # "y" THEN ExcV("ReadOnlyFeatureError")
  ELSE IF feat_val.t = "bool" THEN BoolV(TRUE)
  ELSE IF (IF desc.lo.k = "FileDefined" THEN PyGt(current_value, feat_val)
           ELSE PyGt(BoundV(desc.lo), feat_val))
       THEN ExcV("MinimumExceededError")
  ELSE IF (IF desc.hi.k = "FileDefined" THEN PyGt(feat_val, current_value)
           ELSE PyGt(feat_val, BoundV(desc.hi)))
       THEN ExcV("MaximumExceededError")
  ELSE BoolV(TRUE)

check_feature_change_valid(feat, feat_val, s) ==
  CheckDescriptor(_pdfrate_feature_descriptions[feat], Get(feat, s), feat_val)

(***************************************************************************)
(* mmap.resize, mmap.move and seek + write on a buffer, and                *)
(* _insert_into_mmap, which returns the new buffer and the new cursor.     *)
(***************************************************************************)
\* a variant: an mmap.move that moves nothing
MoveNothing(buf, dest, src, count) == buf

\* mmap.move(dest, src, count): memmove of count bytes (0-based offsets)
Move(buf, dest, src, count) ==
  [i \in 1..Len(buf) |->
     IF i - 1 >= dest /\ i - 1 < dest + count THEN buf[src + (i - 1 - dest) + 1] ELSE buf[i]]

\* mmap.seek(pos); mmap.write(data)
WriteAt(buf, pos, data) ==
  [i \in 1..Len(buf) |->
     IF i - 1 >= pos /\ i - 1 < pos + Len(data) THEN data[i - pos] ELSE buf[i]]

\* a variant: _insert_into_mmap without line 1995, the advance of the cursor
InsertKeepCursor(buf, offset, str) ==
  LET file_trailer == Len(buf) - offset
      data == Encode(str)
      \* mmap.resize: the file is extended with zero bytes
      resized == [i \in 1..(Len(buf) + Len(data)) |-> IF i <= Len(buf) THEN buf[i] ELSE 0]
      moved == Move(resized, offset + Len(data), offset, file_trailer)
  IN [mm |-> WriteAt(moved, offset, data), insert_offset |-> offset]

\* lines 1983-1995: the new buffer and the new self.insert_offset
_insert_into_mmap(buf, offset, str) ==
  LET file_trailer == Len(buf) - offset
      data == Encode(str)
      \* mmap.resize: the file is extended with zero bytes
      resized == [i \in 1..(Len(buf) + Len(data)) |-> IF i <= Len(buf) THEN buf[i] ELSE 0]
      moved == Move(resized, offset + Len(data), offset, file_trailer)
  IN [mm |-> WriteAt(moved, offset, data), insert_offset |-> offset + Len(data)]

(***************************************************************************)
(* Python string formatting used by the edit steps.                        *)
(***************************************************************************)
\* '{x:0>w}': the string padded on the left with '0' to width w
RECURSIVE PadLeft(_, _)
PadLeft(str, w) == IF Len(str) >= w THEN str ELSE PadLeft(<<48>> \o str, w)

\* str(n / d) for the float quotient of two non-negative integers.  The
\* quotients that occur are whole numbers, odd quarters, and 1/3600 and 1/60
\* (from the -1 that the readers return for a missing date).
PyDivStr(n, d) ==
  LET q == n \div d
      r == n % d
  IN CASE r = 0 -> StrInt(q) \o <<46, 48>>
       [] 4 * r = d -> StrInt(q) \o <<46, 50, 53>>
       [] 2 * r = d -> StrInt(q) \o <<46, 53>>
       [] 4 * r = 3 * d -> StrInt(q) \o <<46, 55, 53>>
       [] n = 1 /\ d = 3600 ->
            <<48,46,48,48,48,50,55,55,55,55,55,55,55,55,55,55,55,55,55,55,56>>
       [] n = 1 /\ d = 60 ->
            <<48,46,48,49,54,54,54,54,54,54,54,54,54,54,54,54,54,54,54,54>>

\* "{sign}{h:0>2}{sep}{m:0>2}".format(sign=..., h=abs(tz) / 3600,
\*                                    m=(abs(tz) % 3600) / 60)
TzStr(tz, sep) ==
  <<IF tz > 0 THEN 43 ELSE 45>> \o PadLeft(PyDivStr(Abs(tz), 3600), 2)
  \o <<sep>> \o PadLeft(PyDivStr(Abs(tz) % 3600, 60), 2)

\* the ts_str templates applied to time.gmtime(ts); sep is <<>> for the
\* modification date and the separators '-', 'T', ':' for the creation date
FormatTime(a, d, t, c) ==
  PadLeft(StrInt(a.tm_year), 4) \o d \o PadLeft(StrInt(a.tm_mon), 2) \o d
  \o PadLeft(StrInt(a.tm_mday), 2) \o t \o PadLeft(StrInt(a.tm_hour), 2) \o c
  \o PadLeft(StrInt(a.tm_min), 2) \o c \o PadLeft(StrInt(a.tm_sec), 2)

TsStr(ts, iso) ==
  IF iso THEN FormatTime(gmtime(ts), <<45>>, <<84>>, <<58>>)
  ELSE FormatTime(gmtime(ts), <<>>, <<>>, <<>>)

\* bytes.split(b' ')
RECURSIVE SplitSpace(_)
SplitSpace(s) ==
  LET sp == {i \in 1..Len(s) : s[i] = 32}
  IN IF sp = {} THEN <<s>>
     ELSE LET i == CHOOSE x \in sp : \A y \in sp : x <= y
          IN <<SubSeq(s, 1, i - 1)>> \o SplitSpace(SubSeq(s, i + 1, Len(s)))

\* print @-[1], " ", $1 while /.../g, then .splitlines(): one line per match,
\* the 0-based offset of the capture, a space and the capture
DateLines(fields) ==
  SplitLines(PrintLines([i \in 1..Len(fields) |->
                           StrInt(fields[i].at - 1) \o <<32>> \o fields[i].cap]))

(***************************************************************************)
(* FeatureEdit.modify_file as a state machine.                             *)
(***************************************************************************)
VARIABLES
  pdf,            \* the bytes of the source file self.pdf
  features,       \* the argument of modify_file: feature name -> requested value
  pc,             \* the step that modify_file executes next
  mm,             \* the bytes of the memory-mapped new file
  mmTell,         \* the position of the memory map, mm.tell()
  mmOpen,         \* the memory map is open
  fileOpen,       \* the new file newpdf is open
  insert_offset,  \* self.insert_offset
  report,         \* the local report: name -> value written, or an Exception
  to_change,      \* the local to_change: name -> value still to apply
  result,         \* the 'report' of the returned dictionary
  raised,         \* the class of the exception that left modify_file, or ""
  inserted,       \* history: [at, data] of every _insert_into_mmap call
  validated,      \* history: the features given to check_feature_change_valid
  call,           \* a call of check_feature_change_valid on its own: what it is
                  \* given, [desc, current_value, feat_val]
  valid,          \* what that call returned
  request,        \* what the caller passes as features: [kind, val], kind the
                  \* Python type "dict", "list" or "ndarray"
  first           \* history: the calls made on the object before this one
                  \* (calls), where the first call's cursor started (start) and
                  \* what the first call was given and left behind

vars == <<pdf, features, pc, mm, mmTell, mmOpen, fileOpen, insert_offset, report,
          to_change, result, raised, inserted, validated, call, valid, request,
          first>>

EmptyDict == [f \in {} |-> IntV(0)]

\* del d[k]
Del(d, keys) == [f \in DOMAIN d \ keys |-> d[f]]
\* d[k] = v for every k of keys, v taken from src
Put(d, keys, src) == [f \in DOMAIN d \cup keys |-> IF f \in keys THEN src[f] ELSE d[f]]

\* features_current[feat]: the value read from the source file
features_current(feat) == Get(feat, pdf)

\* the dictionary order of _incrementable_feats and of _metadata_feats
IncrementableOrder ==
  SelectSeq(_pdfrate_feature_names, LAMBDA f : f \in DOMAIN _incrementable_feats)
MetadataOrder == <<"author", "creator", "keywords", "producer", "subject", "title">>

\* the first element of seq that is in the set S, or "" when there is none
FirstOf(seq, S) ==
  LET hits == {i \in 1..Len(seq) : seq[i] \in S}
  IN IF hits = {} THEN "" ELSE seq[CHOOSE i \in hits : \A j \in hits : i <= j]

\* self._insert_into_mmap(mm, str)
DoInsert(str) ==
  LET r == _insert_into_mmap(mm, insert_offset, str)
  IN /\ mm' = r.mm
     /\ insert_offset' = r.insert_offset
     \* mm.seek(offset); mm.write(str): the position is behind what was written
     /\ mmTell' = insert_offset + Len(Encode(str))
     /\ inserted' = Append(inserted, [at |-> insert_offset, data |-> Encode(str)])

\* lines 408-414: 1 for every feature whose edit is 'y', in the order of the
\* names
get_feature_mask_numpy ==
  [i \in 1..Len(_pdfrate_feature_names) |->
     IF _pdfrate_feature_descriptions[_pdfrate_feature_names[i]].edit = "y" THEN 1 ELSE 0]

\* FeatureDescriptor.get_feature_names() without the features whose readers
\* are left out and without the two float features whose values in days are
\* too large for a float in units of 1e-7: a dense request holds these at
\* their current value, which line 1739 drops from the request
DenseNames ==
  SelectSeq(_pdfrate_feature_names,
            LAMBDA f : f \in ModelFeats \ {"moddate_version_ratio", "createdate_version_ratio"})

\* int(x) in the place of int(round(x)) (for C16)
DecodeTruncating(t, x) ==
  CASE t = "int" ->
         IntV(IF x.n >= 0 \/ x.u = 0 THEN x.n ELSE x.n + 1)
    [] t = "bool" ->
         BoolV(~(\/ x.n = 0 /\ x.u < FloatUnit \div 100
                 \/ x.n = -1 /\ FloatUnit - x.u < FloatUnit \div 100))
    [] t = "float" -> FloatV(x.n * FloatUnit + x.u)

\* lines 1693-1699: the element x of a numpy array as a value of the type t.
\* An element is a float, held as its floor x.n and the rest x.u in units of
\* 1e-7 (a timestamp times 1e7 is too large a number); int(round(x)) is the
\* nearest whole number, the even one when x is halfway
Decode(t, x) ==
  CASE t = "int" ->
         IntV(IF 2 * x.u < FloatUnit \/ (2 * x.u = FloatUnit /\ x.n % 2 = 0)
              THEN x.n ELSE x.n + 1)
    [] t = "bool" ->
         BoolV(~(\/ x.n = 0 /\ x.u < FloatUnit \div 100
                 \/ x.n = -1 /\ FloatUnit - x.u < FloatUnit \div 100))
    [] t = "float" -> FloatV(x.n * FloatUnit + x.u)

\* lines 1690-1703: a numpy array is decoded into a list, a list is zipped
\* with the sorted feature names, a dictionary is taken as it is
Normalise(req) ==
  CASE req.kind = "dict" -> req.val
    [] req.kind = "list" ->
         [f \in {DenseNames[i] : i \in 1..Len(req.val)} |->
            req.val[CHOOSE i \in 1..Len(req.val) : DenseNames[i] = f]]
    [] req.kind = "ndarray" ->
         [f \in {DenseNames[i] : i \in 1..Len(req.val)} |->
            Decode(_pdfrate_feature_descriptions[f].type,
                   req.val[CHOOSE i \in 1..Len(req.val) : DenseNames[i] = f])]

\* the staging without line 1730: the cursor stays where it is (for C19)
StageKeepCursor ==
  /\ pc = "stage"
  /\ UNCHANGED <<call, valid, request>>
  /\ features' = Normalise(request)
  /\ mm' = pdf
  /\ mmTell' = 0
  /\ mmOpen' = TRUE
  /\ fileOpen' = TRUE
  /\ insert_offset' = insert_offset
  /\ first' = IF first.calls = 0 THEN [first EXCEPT !.start = insert_offset'] ELSE first
  /\ report' = EmptyDict
  /\ to_change' = EmptyDict
  /\ pc' = "check"
  /\ UNCHANGED <<pdf, result, raised, inserted, validated>>

\* lines 1690-1733: normalise the request, copy the source into a new file,
\* map it, reset the cursor
Stage ==
  /\ pc = "stage"
  /\ UNCHANGED <<call, valid, request>>
  /\ features' = Normalise(request)
  /\ mm' = pdf
  /\ mmTell' = 0
  /\ mmOpen' = TRUE
  /\ fileOpen' = TRUE
  /\ insert_offset' = _get_startxref_position(pdf)
  /\ first' = IF first.calls = 0 THEN [first EXCEPT !.start = insert_offset'] ELSE first
  /\ report' = EmptyDict
  /\ to_change' = EmptyDict
  /\ pc' = "check"
  /\ UNCHANGED <<pdf, result, raised, inserted, validated>>

\* a variant: the diff of line 1737 alone, without the float tolerance of line 1738
ValueDiffersExactly(current, feat_val) ==
  ~PyEq(current, feat_val) /\ ~IsException(feat_val)

\* lines 1737-1738: current != feat_val and not isinstance(feat_val, Exception),
\* and not a float within 1e-6 of the current value
ValueDiffers(current, feat_val) ==
  /\ ~PyEq(current, feat_val)
  /\ ~IsException(feat_val)
  /\ ~(feat_val.t = "float" /\ NearEq(current, feat_val))

\* a request accepted only as a whole: one rejection rejects every feature
\* of the request (for C28)
FillToChangeTogether(asked, outcome) ==
  /\ to_change' = [f \in {g \in asked : \A h \in asked : outcome[h] = BoolV(TRUE)} |->
                     features[f]]
  /\ report' = [f \in {g \in asked : \E h \in asked : outcome[h] # BoolV(TRUE)} |->
                  IF outcome[f] = BoolV(TRUE) THEN ExcV("ValueError") ELSE outcome[f]]

\* lines 1742-1757: the features that differ go to to_change when the
\* validator returned True, else to report with what it returned
FillToChange(asked, outcome) ==
  /\ to_change' = [f \in {g \in asked : outcome[g] = BoolV(TRUE)} |-> features[f]]
  /\ report' = [f \in {g \in asked : outcome[g] # BoolV(TRUE)} |-> outcome[f]]

\* lines 1735-1761: the loop that fills to_change and report
CheckFeatures ==
  /\ pc = "check"
  /\ UNCHANGED <<call, valid, request, first>>
  /\ validated' = {f \in DOMAIN features : ValueDiffers(features_current(f), features[f])}
  /\ FillToChange(validated',
            [f \in validated' |-> check_feature_change_valid(f, features[f], pdf)])
  /\ pc' = "version"
  /\ UNCHANGED <<pdf, features, mm, mmTell, mmOpen, fileOpen, insert_offset, result, raised, inserted>>

\* the version written through to the source file (for C15)
ModifyVersionInSource ==
  /\ pc = "version"
  /\ UNCHANGED <<call, valid, request, first>>
  /\ IF "version" \in DOMAIN to_change /\ VersionDigitIndex(mm) # 0
     THEN /\ mm' = [mm EXCEPT ![VersionDigitIndex(mm)] = to_change["version"].v]
          /\ UNCHANGED mmTell
          /\ report' = Put(report, {"version"}, to_change)
          /\ to_change' = Del(to_change, {"version"})
     ELSE UNCHANGED <<mm, mmTell, report, to_change>>
  /\ pc' = "incrementable"
  /\ pdf' = mm'
  /\ UNCHANGED <<features, mmOpen, fileOpen, insert_offset, result, raised,
                 inserted, validated>>

\* lines 1765-1779: mm[match.start(1)] = int(to_change['version'])
ModifyVersion ==
  /\ pc = "version"
  /\ UNCHANGED <<call, valid, request, first>>
  /\ IF "version" \in DOMAIN to_change /\ VersionDigitIndex(mm) # 0
     THEN /\ mm' = [mm EXCEPT ![VersionDigitIndex(mm)] = to_change["version"].v]
          /\ UNCHANGED mmTell
          /\ report' = Put(report, {"version"}, to_change)
          /\ to_change' = Del(to_change, {"version"})
     ELSE UNCHANGED <<mm, mmTell, report, to_change>>
  /\ pc' = "incrementable"
  /\ UNCHANGED <<pdf, features, mmOpen, fileOpen, insert_offset, result, raised,
                 inserted, validated>>

\* the marker inserted once whatever the increase is (for C22)
ModifyIncrementableOnce ==
  /\ pc = "incrementable"
  /\ UNCHANGED <<call, valid, request, first>>
  /\ LET feat == FirstOf(IncrementableOrder, DOMAIN to_change)
     IN /\ feat # ""
        /\ DoInsert(<<32>> \o _incrementable_feats[feat] \o <<10>>)
        /\ report' = Put(report, {feat}, to_change)
        /\ to_change' = Del(to_change, {feat})
  /\ UNCHANGED <<pdf, features, pc, mmOpen, fileOpen, result, raised, validated>>

\* lines 1782-1792: one iteration of the loop that finds its feature in to_change
ModifyIncrementable ==
  /\ pc = "incrementable"
  /\ UNCHANGED <<call, valid, request, first>>
  /\ LET feat == FirstOf(IncrementableOrder, DOMAIN to_change)
     IN /\ feat # ""
        /\ DoInsert(Repeat(<<32>> \o _incrementable_feats[feat] \o <<10>>,
                           to_change[feat].v - features_current(feat).v))
        /\ report' = Put(report, {feat}, to_change)
        /\ to_change' = Del(to_change, {feat})
  /\ UNCHANGED <<pdf, features, pc, mmOpen, fileOpen, result, raised, validated>>

\* line 1782: the loop ends
IncrementableDone ==
  /\ pc = "incrementable"
  /\ UNCHANGED <<call, valid, request, first>>
  /\ FirstOf(IncrementableOrder, DOMAIN to_change) = ""
  /\ pc' = "metadata"
  /\ UNCHANGED <<pdf, features, mm, mmTell, mmOpen, fileOpen, insert_offset, report, to_change,
                 result, raised, inserted, validated>>

\* line 1801: the suffixes of the prefix that are in to_change, in the order
\* of to_change (the sorted order of the feature names)
MetadataFeats(prefix) ==
  SelectSeq(_pdfrate_feature_names,
            LAMBDA f : /\ f \in DOMAIN to_change
                       /\ f \in MetaNames
                       /\ MetaPrefix(f) = prefix
                       /\ MetaSuffix(f) \notin {"mismatch", "len"})

\* lines 1805-1816: the characters that one sub-feature adds to the addendum
ClassChars(feat) ==
  LET c == CASE MetaSuffix(feat) = "lc" -> 97
             [] MetaSuffix(feat) = "uc" -> 90
             [] MetaSuffix(feat) = "num" -> 51
             [] MetaSuffix(feat) = "oth" -> 45
             [] MetaSuffix(feat) = "dot" -> 46
  IN Repeat(<<c>>, to_change[feat].v)

RECURSIVE Addendum(_)
Addendum(feats) == IF feats = <<>> THEN <<>> ELSE ClassChars(Head(feats)) \o Addendum(Tail(feats))

\* lines 1799-1825: one iteration of the loop over _metadata_feats that finds
\* sub-features of its field in to_change
\* lines 1803-1825 for one field: metadata_feats are its features in to_change
WriteField(feat_prefix, metadata_feats, addendum) ==
  /\ report' = Put(report, {metadata_feats[i] : i \in 1..Len(metadata_feats)}, to_change)
  /\ to_change' = Del(to_change, {metadata_feats[i] : i \in 1..Len(metadata_feats)})
  /\ IF addendum # <<>>
     THEN \* feat_str.format(addendum)
          DoInsert(<<32>> \o MetaKey[feat_prefix] \o <<40>> \o addendum \o <<41, 10>>)
     ELSE UNCHANGED <<mm, mmTell, insert_offset, inserted>>

ModifyMetadata ==
  /\ pc = "metadata"
  /\ UNCHANGED <<call, valid, request, first>>
  /\ LET feat_prefix == FirstOf(MetadataOrder, {p \in MetaFields : MetadataFeats(p) # <<>>})
     IN /\ feat_prefix # ""
        /\ WriteField(feat_prefix, MetadataFeats(feat_prefix),
                      Addendum(MetadataFeats(feat_prefix)))
  /\ UNCHANGED <<pdf, features, pc, mmOpen, fileOpen, result, raised, validated>>

\* line 1799: the loop ends
MetadataDone ==
  /\ pc = "metadata"
  /\ UNCHANGED <<call, valid, request, first>>
  /\ FirstOf(MetadataOrder, {p \in MetaFields : MetadataFeats(p) # <<>>}) = ""
  /\ pc' = "moddate"
  /\ UNCHANGED <<pdf, features, mm, mmTell, mmOpen, fileOpen, insert_offset, report, to_change,
                 result, raised, inserted, validated>>

\* The two date steps share their shape.  ts and tz name the two features,
\* iso tells the creation date from the modification date, old_tz is the
\* time zone read from the source, lines the datelines of the source, and
\* next the step that follows.  The timestamp that is not requested comes
\* from get_moddate_ts in both steps (lines 1842 and 1894), and the
\* separator of a time zone that is not requested is "'" in both steps
\* (lines 1856 and 1908).
WriteDate(asked, new_date, old_date, iso, next) ==
  /\ report' = Put(report, asked, to_change)
  /\ to_change' = Del(to_change, asked)
  /\ IF old_date # <<>> /\ Len(new_date) = Len(old_date[2])
     THEN \* mm.seek(mod_location); mm.write(new_date) with a str argument
          /\ mmTell' = IntOf(old_date[1])
          /\ raised' = "TypeError"
          /\ pc' = "raised"
          /\ UNCHANGED <<mm, insert_offset, inserted>>
     ELSE /\ DoInsert(IF iso
                      THEN <<60,120,97,112,58,67,114,101,97,116,101,68,97,116,101,62>>
                           \o new_date
                           \o <<60,47,120,97,112,58,67,114,101,97,116,101,68,97,116,101,62>>
                      ELSE <<47,77,111,100,68,97,116,101,40>> \o new_date \o <<41>>)
          /\ pc' = next
          /\ UNCHANGED raised

\* datelines[-1].split(b' '), or nothing when there is no date line
LastDate(lines) == IF lines = <<>> THEN <<>> ELSE SplitSpace(lines[Len(lines)])

ModifyDate(ts, tz, iso, old_tz, lines, next) ==
  IF ts \notin DOMAIN to_change /\ tz \notin DOMAIN to_change
  THEN /\ pc' = next
       /\ UNCHANGED <<mm, mmTell, insert_offset, report, to_change, raised, inserted>>
  ELSE WriteDate({ts, tz} \cap DOMAIN to_change,
                 (IF iso THEN <<>> ELSE <<68, 58>>)
                 \o TsStr(IF ts \in DOMAIN to_change THEN to_change[ts].v
                          ELSE get_moddate_ts(pdf), iso)
                 \o (IF tz \in DOMAIN to_change
                     THEN (IF to_change[tz].v = 0 THEN <<90>>
                           ELSE TzStr(to_change[tz].v, IF iso THEN 58 ELSE 39))
                     ELSE (IF old_tz = 0 THEN <<90>> ELSE TzStr(old_tz, 39))),
                 LastDate(lines), iso, next)

\* lines 1828-1882
ModifyModdate ==
  /\ pc = "moddate"
  /\ UNCHANGED <<call, valid, request, first>>
  /\ ModifyDate("moddate_ts", "moddate_tz", FALSE, get_moddate_tz(pdf),
                DateLines(TagFields(pdf, 1, <<47,77,111,100,68,97,116,101,40>>, <<41>>)),
                "createdate")
  /\ UNCHANGED <<pdf, features, mmOpen, fileOpen, result, validated>>

\* lines 1885-1933
ModifyCreatedate ==
  /\ pc = "createdate"
  /\ UNCHANGED <<call, valid, request, first>>
  /\ ModifyDate("createdate_ts", "createdate_tz", TRUE, get_createdate_tz(pdf),
                DateLines(CreateDateFields(pdf, 1)), "size")
  /\ UNCHANGED <<pdf, features, mmOpen, fileOpen, result, validated>>

\* a variant: insert_count taken from the size of the source, not of the buffer
InsertCountOfSource(size, buf) == size - Len(pdf)

\* line 1937: insert_count = to_change['size'] - mm.size()
InsertCount(size, buf) == size - Len(buf)

\* the size step taken before the creation-date step (for C13)
ModifySizeBeforeCreatedate ==
  /\ pc = "size"
  /\ UNCHANGED <<call, valid, request, first>>
  /\ IF "size" \in DOMAIN to_change /\ InsertCount(to_change["size"].v, mm) > 0
     THEN /\ DoInsert(Repeat(<<32>>, InsertCount(to_change["size"].v, mm)))
          /\ report' = Put(report, {"size"}, to_change)
          /\ to_change' = Del(to_change, {"size"})
     ELSE UNCHANGED <<mm, mmTell, insert_offset, inserted, report, to_change>>
  /\ pc' = "createdate"
  /\ UNCHANGED <<pdf, features, mmOpen, fileOpen, result, raised, validated>>

\* the padding one space longer than insert_count (for C30)
ModifySizeOneMore ==
  /\ pc = "size"
  /\ UNCHANGED <<call, valid, request, first>>
  /\ IF "size" \in DOMAIN to_change /\ InsertCount(to_change["size"].v, mm) > 0
     THEN /\ DoInsert(Repeat(<<32>>, InsertCount(to_change["size"].v, mm) + 1))
          /\ report' = Put(report, {"size"}, to_change)
          /\ to_change' = Del(to_change, {"size"})
     ELSE UNCHANGED <<mm, mmTell, insert_offset, inserted, report, to_change>>
  /\ pc' = "finalize"
  /\ UNCHANGED <<pdf, features, mmOpen, fileOpen, result, raised, validated>>

\* lines 1935-1950
ModifySize ==
  /\ pc = "size"
  /\ UNCHANGED <<call, valid, request, first>>
  /\ IF "size" \in DOMAIN to_change /\ InsertCount(to_change["size"].v, mm) > 0
     THEN /\ DoInsert(Repeat(<<32>>, InsertCount(to_change["size"].v, mm)))
          /\ report' = Put(report, {"size"}, to_change)
          /\ to_change' = Del(to_change, {"size"})
     ELSE UNCHANGED <<mm, mmTell, insert_offset, inserted, report, to_change>>
  /\ pc' = "finalize"
  /\ UNCHANGED <<pdf, features, mmOpen, fileOpen, result, raised, validated>>

\* what is left in to_change reported as applied (for C14)
FinalizeLeftoverApplied ==
  /\ pc = "finalize"
  /\ UNCHANGED <<call, valid, request, first>>
  /\ mmOpen' = FALSE
  /\ fileOpen' = FALSE
  /\ result' = [k \in DOMAIN report \cup DOMAIN to_change |->
                  IF k \in DOMAIN to_change
                  THEN [success |-> TRUE, val |-> to_change[k]]
                  ELSE [success |-> ~IsException(report[k]), val |-> report[k]]]
  /\ pc' = "done"
  /\ UNCHANGED <<pdf, features, mm, mmTell, insert_offset, report, to_change, raised,
                 inserted, validated>>

\* the return value without lines 1974-1975: what is left in to_change is
\* not reported (for C29)
FinalizeWithoutLeftover ==
  /\ pc = "finalize"
  /\ UNCHANGED <<call, valid, request, first>>
  /\ mmOpen' = FALSE
  /\ fileOpen' = FALSE
  /\ result' = [k \in DOMAIN report |->
                  [success |-> ~IsException(report[k]), val |-> report[k]]]
  /\ pc' = "done"
  /\ UNCHANGED <<pdf, features, mm, mmTell, insert_offset, report, to_change, raised,
                 inserted, validated>>

\* lines 1952-1976: flush and close, then the report of the return value
Finalize ==
  /\ pc = "finalize"
  /\ UNCHANGED <<call, valid, request, first>>
  /\ mmOpen' = FALSE
  /\ fileOpen' = FALSE
  /\ result' = [k \in DOMAIN report \cup DOMAIN to_change |->
                  IF k \in DOMAIN to_change
                  THEN [success |-> FALSE, val |-> to_change[k]]
                  ELSE [success |-> ~IsException(report[k]), val |-> report[k]]]
  /\ pc' = "done"
  /\ UNCHANGED <<pdf, features, mm, mmTell, insert_offset, report, to_change, raised,
                 inserted, validated>>

\* the calls of modify_file on one object
MaxCalls == 2

\* modify_file has returned or raised, and the caller calls it again on the
\* same object: the locals of the call are gone, self.pdf and
\* self.insert_offset are what the call left (lines 447-450 run only once)
CallAgain ==
  /\ pc \in {"done", "raised"}
  /\ first.calls + 1 < MaxCalls
  /\ first' = IF first.calls = 0
              THEN [first EXCEPT !.calls = 1, !.request = request, !.mm = mm,
                                 !.result = result, !.raised = raised]
              ELSE [first EXCEPT !.calls = @ + 1]
  \* the same request or, for a dense request, the dictionary it stands for
  /\ \E same \in BOOLEAN :
       request' = IF same \/ request.kind = "dict" THEN request
                  ELSE [kind |-> "dict", val |-> Normalise(request)]
  /\ pc' = "stage"
  /\ features' = EmptyDict
  /\ mm' = <<>>
  /\ mmTell' = 0
  /\ mmOpen' = FALSE
  /\ fileOpen' = FALSE
  /\ report' = EmptyDict
  /\ to_change' = EmptyDict
  /\ result' = EmptyDict
  /\ raised' = ""
  /\ inserted' = <<>>
  /\ validated' = {}
  /\ UNCHANGED <<pdf, insert_offset, call, valid>>

\* 'feats' of the return value: the features of FeatureEdit(newpdf.name)
feats(f) == Get(f, mm)

(***************************************************************************)
(* The source documents of the model.                                      *)
(***************************************************************************)
\* a header, an author of three lower-case letters, endobj right before the last startxref:
\*   '%PDF-1.3\n1 0 obj\n<</Author(Bob.x)>>\nendobj\nstartxref\n9\n%%EOF\n'
DocPlain ==
  <<37,80,68,70,45,49,46,51,10,49,32,48,32,111,98,106,10,60,60,47,65,117,116,
    104,111,114,40,66,111,98,46,120,41,62,62,10,101,110,100,111,98,106,10,115,
    116,97,114,116,120,114,101,102,10,57,10,37,37,69,79,70,10>>
\* no header and no startxref (the cursor is the end of the file), three obfuscated /AcroForm:
\*   '1 0 obj\n<< /Acro#46orm /Acro#46orm /Acro#46orm >>\nendobj\n'
DocNoXref ==
  <<49,32,48,32,111,98,106,10,60,60,32,47,65,99,114,111,35,52,54,111,114,109,
    32,47,65,99,114,111,35,52,54,111,114,109,32,47,65,99,114,111,35,52,54,111,
    114,109,32,62,62,10,101,110,100,111,98,106,10>>
\* a modification date before the cursor, xref and trailer, and behind the
\* cursor a creation date one day later:
\*   '%PDF-1.4\n/ModDate(D:20100101120000Z)\nxref\ntrailer\nstartxref\n0\n%%EOF\n<xap:CreateDate>2010-01-02T12:00:00Z</xap:CreateDate>\n'
DocDates ==
  <<37,80,68,70,45,49,46,52,10,47,77,111,100,68,97,116,101,40,68,58,50,48,49,
    48,48,49,48,49,49,50,48,48,48,48,90,41,10,120,114,101,102,10,116,114,97,
    105,108,101,114,10,115,116,97,114,116,120,114,101,102,10,48,10,37,37,69,
    79,70,10,60,120,97,112,58,67,114,101,97,116,101,68,97,116,101,62,50,48,49,
    48,45,48,49,45,48,50,84,49,50,58,48,48,58,48,48,90,60,47,120,97,112,58,67,
    114,101,97,116,101,68,97,116,101,62,10>>
\* a page box, an image, a stream, endstream right before startxref:
\*   '%PDF-1.7\n[0 0 597 842]\n<< /Height 65/Width 65>>\nstream\nendstream\nstartxref\n0\n'
DocBoxes ==
  <<37,80,68,70,45,49,46,55,10,91,48,32,48,32,53,57,55,32,56,52,50,93,10,60,
    60,32,47,72,101,105,103,104,116,32,54,53,47,87,105,100,116,104,32,54,53,
    62,62,10,115,116,114,101,97,109,10,101,110,100,115,116,114,101,97,109,10,
    115,116,97,114,116,120,114,101,102,10,48,10>>
\* the header after the last startxref, that is, behind the cursor:
\*   '1 0 obj\nendobj\nstartxref\n0\n%PDF-1.2\n'
DocTail ==
  <<49,32,48,32,111,98,106,10,101,110,100,111,98,106,10,115,116,97,114,116,
    120,114,101,102,10,48,10,37,80,68,70,45,49,46,50,10>>

Docs == {DocPlain, DocNoXref, DocDates, DocBoxes, DocTail}

(***************************************************************************)
(* The requests of the model, drawn relative to the values that the        *)
(* document has.                                                           *)
(***************************************************************************)
\* most features requested together
MaxReq == 3

\* the values asked of one feature whose value in the document is cur
ValuesFor(cur, f) ==
  CASE f \in DOMAIN _incrementable_feats \cup {"box_nonother_types"} ->
         {IntV(cur + k) : k \in -1..MaxIncrease}
         \cup {IntV(_pdfrate_feature_descriptions[f].hi.v + 1), FloatV((cur + 1) * FloatUnit)}
    [] f \in {MetaName[p][x] : p \in MetaFields, x \in {"dot", "lc", "num", "oth", "uc"}} ->
         {IntV(n) : n \in -1..MaxCount} \cup {IntV(_pdfrate_feature_descriptions[f].hi.v + 1)}
    [] f = "version" -> {IntV(n) : n \in 0..9} \cup {BoolV(TRUE), FloatV(5 * FloatUnit)}
    [] f = "size" -> {IntV(cur + k) : k \in -1..MaxPad} \cup {ExcV("Exception")}
    [] f \in {"moddate_ts", "createdate_ts"} -> {IntV(-1), IntV(0), IntV(86400), IntV(1262347200)}
    [] f \in {"moddate_tz", "createdate_tz"} ->
         {IntV(-36900), IntV(-5400), IntV(0), IntV(3600), IntV(46800), IntV(47700)}
    [] f = "pos_eof_max" ->
         {FloatV(cur + u) : u \in {-20, -5, 0, 5, 20}} \cup {IntV(1)}
    [] f = "box_other_only" -> {BoolV(TRUE), BoolV(FALSE), IntV(0), IntV(1)}
    [] OTHER ->
         {IntV(cur + k) : k \in -1..1}
         \cup {FloatV(IF Abs(cur) <= 200 THEN cur * FloatUnit + 5 ELSE 5),
               BoolV(TRUE), ExcV("Exception")}

\* the requests of several features: every choice of 2..MaxReq of these,
\* cur being the values that the document has
MixOpts(cur) ==
  {<<"count_page", IntV(cur["count_page"] + 1)>>,
   <<"count_startxref", IntV(cur["count_startxref"] + 1)>>,
   <<"count_xref", IntV(cur["count_xref"] + MaxIncrease)>>,
   <<"count_js", IntV(cur["count_js"] + 1)>>,
   <<"count_image_small", IntV(cur["count_image_small"] + 1)>>,
   <<"count_image_total", IntV(cur["count_image_total"] + 1)>>,
   <<"author_lc", IntV(3)>>,
   <<"author_uc", IntV(2)>>,
   <<"author_len", IntV(cur["author_len"] + 1)>>,
   <<"title_num", IntV(1)>>,
   <<"version", IntV(5)>>,
   <<"moddate_tz", IntV(3600)>>,
   <<"createdate_ts", IntV(86400)>>,
   <<"size", IntV(cur["size"] - 1)>>,
   <<"size", IntV(cur["size"] + 1)>>,
   <<"size", IntV(cur["size"] + MaxPad)>>}

\* the dict of a set of (feature, value) pairs
DictOf(S) == [f \in {o[1] : o \in S} |-> (CHOOSE o \in S : o[1] = f)[2]]

\* the requests on the document d: those of one feature, and those of
\* 2..MaxReq distinct features
Requests(d) ==
  UNION {{[g \in {f} |-> v] : v \in ValuesFor(Get(f, d).v, f)} : f \in ModelFeats}
  \cup {DictOf(S) :
          S \in {T \in SUBSET MixOpts([f \in {"count_page", "count_startxref", "count_xref",
                                               "count_js", "count_image_small",
                                               "count_image_total", "author_len", "size"}
                                          |-> Get(f, d).v]) :
                   /\ Cardinality(T) \in 2..MaxReq
                   /\ Cardinality({o[1] : o \in T}) = Cardinality(T)}}

\* a FeatureEdit object on a document, and a call of modify_file about to start
\* a dense request: the current values in the order of the names, with
\* some of them replaced.  A numpy array holds floats only; a list holds
\* values of any type
DenseRequests(cur) ==
  LET js == cur["count_js"].v
      Half == FloatUnit \div 2
      AsFloat(v) == IF v.t = "float" THEN [n |-> v.v \div FloatUnit, u |-> v.v % FloatUnit]
                    ELSE [n |-> v.v, u |-> 0]
      Dense(kind, sub) ==
        [kind |-> kind,
         val |-> [i \in 1..Len(DenseNames) |->
                    IF DenseNames[i] \in DOMAIN sub THEN sub[DenseNames[i]]
                    ELSE IF kind = "ndarray" THEN AsFloat(cur[DenseNames[i]])
                    ELSE cur[DenseNames[i]]]]
  IN {Dense("ndarray", DictOf(S)) :
        S \in {{}} \cup
              {{<<"count_js", [n |-> js + k \div 10, u |-> (k % 10) * (FloatUnit \div 10)]>>} :
                 k \in {4, 5, 6, 10, 15, 25}}
              \cup {{<<"box_other_only", x>>} :
                      x \in {[n |-> 0, u |-> 0], [n |-> 0, u |-> FloatUnit \div 200],
                             [n |-> 0, u |-> FloatUnit \div 100],
                             [n |-> -1, u |-> FloatUnit - FloatUnit \div 200],
                             [n |-> -1, u |-> 0]}}
              \cup {{<<"pos_eof_max", AsFloat(FloatV(cur["pos_eof_max"].v + 20))>>},
                    {<<"author_uc", [n |-> 2, u |-> Half]>>},
                    {<<"count_js", [n |-> js + 1, u |-> 0]>>,
                     <<"size", [n |-> cur["size"].v + MaxPad, u |-> Half]>>}}}
     \cup
     {Dense("list", DictOf(S)) :
        S \in {{}} \cup
              {{<<"count_js", v>>} :
                 v \in {IntV(js + 1), FloatV((js + 1) * FloatUnit),
                        FloatV(js * FloatUnit + Half), BoolV(TRUE)}}
              \cup {{<<"box_other_only", v>>} : v \in {BoolV(FALSE), BoolV(TRUE), FloatV(0)}}
              \cup {{<<"count_js", IntV(js + 1)>>, <<"size", IntV(cur["size"].v + MaxPad)>>},
                    {<<"count_js", FloatV((js + 1) * FloatUnit)>>,
                     <<"size", IntV(cur["size"].v + MaxPad)>>}}}

\* lines 447-450 and the state before the first call: no locals, the cursor
\* as __init__ set it
Idle ==
  /\ features = EmptyDict
  /\ pc = "stage"
  /\ mm = <<>>
  /\ mmTell = 0
  /\ mmOpen = FALSE
  /\ fileOpen = FALSE
  /\ insert_offset = _get_startxref_position(pdf)
  /\ report = EmptyDict
  /\ to_change = EmptyDict
  /\ result = EmptyDict
  /\ raised = ""
  /\ inserted = <<>>
  /\ validated = {}
  \* no call of check_feature_change_valid on its own
  /\ call = [desc |-> [type |-> "", lo |-> [k |-> "FileDefined"], hi |-> [k |-> "FileDefined"],
                       edit |-> ""],
             current_value |-> IntV(0), feat_val |-> IntV(0)]
  /\ valid = [t |-> "", v |-> 0]
  /\ first = [calls |-> 0, start |-> 0, request |-> [kind |-> "dict", val |-> EmptyDict],
              mm |-> <<>>, result |-> EmptyDict, raised |-> ""]

\* one call with a dictionary
Init ==
  /\ pdf \in Docs
  /\ request \in {[kind |-> "dict", val |-> r] : r \in Requests(pdf)}
  /\ Idle

\* calls with a dictionary of one or two features, a list or a numpy array
InitCalls ==
  /\ pdf \in Docs
  /\ request \in {[kind |-> "dict", val |-> r] :
                    r \in {q \in Requests(pdf) : Cardinality(DOMAIN q) <= 2}}
                 \cup DenseRequests([f \in ModelFeats |-> Get(f, pdf)])
  /\ Idle

Next ==
  \/ Stage
  \/ CheckFeatures
  \/ ModifyVersion
  \/ ModifyIncrementable
  \/ IncrementableDone
  \/ ModifyMetadata
  \/ MetadataDone
  \/ ModifyModdate
  \/ ModifyCreatedate
  \/ ModifySize
  \/ Finalize

Spec == Init /\ [][Next]_vars

\* successive calls on one object
SpecCalls == InitCalls /\ [][Next \/ CallAgain]_vars

(***************************************************************************)
(* check_feature_change_valid on its own.  The function reads a descriptor *)
(* of the catalog, the current value and the requested value; here the     *)
(* descriptor is drawn from every combination of type, kind of lower       *)
(* bound, kind of upper bound and editability, because the catalog has no  *)
(* editable bool or float feature and so never reaches the bool return     *)
(* through modify_file.                                                    *)
(***************************************************************************)
\* the literal bounds of the descriptors, and the largest value
LitLo == 1
LitHi == 2
MaxValue == 4

Descriptors ==
  [type : {"int", "float", "bool"},
   lo : {[k |-> "FileDefined"], [k |-> "lit", v |-> LitLo]},
   hi : {[k |-> "FileDefined"], [k |-> "lit", v |-> LitHi]},
   edit : {"y", "m", "n"}]

\* the values of a Python type: whole numbers, and for float their halves too
ValuesOf(type) ==
  CASE type = "int" -> {IntV(n) : n \in 0..MaxValue}
    [] type = "bool" -> {BoolV(TRUE), BoolV(FALSE)}
    [] type = "float" -> {FloatV(n * (FloatUnit \div 2)) : n \in 0..(2 * MaxValue)}

InitValidator ==
  /\ pdf = <<>>
  /\ features = EmptyDict
  /\ pc = "validate"
  /\ mm = <<>>
  /\ mmTell = 0
  /\ mmOpen = FALSE
  /\ fileOpen = FALSE
  /\ insert_offset = 0
  /\ report = EmptyDict
  /\ to_change = EmptyDict
  /\ result = EmptyDict
  /\ raised = ""
  /\ inserted = <<>>
  /\ validated = {}
  /\ \E desc \in Descriptors :
       call \in [desc : {desc}, current_value : ValuesOf(desc.type),
                 feat_val : UNION {ValuesOf(t) : t \in {"int", "float", "bool"}}]
  /\ valid = [t |-> "", v |-> 0]
  /\ request = [kind |-> "dict", val |-> EmptyDict]
  /\ first = [calls |-> 0, start |-> 0, request |-> [kind |-> "dict", val |-> EmptyDict],
              mm |-> <<>>, result |-> EmptyDict, raised |-> ""]

\* lines 1627-1653 on the descriptor, the current value and the requested value
Validate ==
  /\ pc = "validate"
  /\ valid' = CheckDescriptor(call.desc, call.current_value, call.feat_val)
  /\ pc' = "validated"
  /\ UNCHANGED <<pdf, features, mm, mmTell, mmOpen, fileOpen, insert_offset, report, to_change,
                 result, raised, inserted, validated, call, request, first>>

SpecValidator == InitValidator /\ [][Validate]_vars

(***************************************************************************)
(* Properties of the insertions (_insert_into_mmap, lines 1983-1995).      *)
(***************************************************************************)
\* the sum of the payload lengths of a history of insertions
RECURSIVE SumLen(_)
SumLen(h) == IF h = <<>> THEN 0 ELSE Len(h[1].data) + SumLen(Tail(h))

ReadOnlyFeats == {f \in ModelFeats : _pdfrate_feature_descriptions[f].edit # "y"}

\* the buffer that the inserting steps (lines 1781-1951) start from: the
\* source, with the version byte when the version step wrote it
EntryBuffer ==
  IF "version" \in DOMAIN report /\ ~IsException(report["version"])
  THEN [pdf EXCEPT ![VersionDigitIndex(pdf)] = report["version"].v]
  ELSE pdf

\* the tail of buffer 'old' from offset c on is in 'new', shifted by n
TailShifted(old, new, c, n) == \A i \in (c + 1)..Len(old) : new[i + n] = old[i]

\* C1: after two or more insertions of one modify_file call the buffer is
\* longer than the source by the sum of the payload lengths, and the bytes
\* that the buffer held from the initial cursor on are unchanged, in order,
\* behind the payloads
C1_CursorCorrect ==
  Len(inserted) >= 2 =>
    /\ Len(mm) = Len(pdf) + SumLen(inserted)
    /\ TailShifted(EntryBuffer, mm, _get_startxref_position(pdf), SumLen(inserted))

\* C1 witness: a finished call that inserted for a counter, a metadata field
\* and a date, in front of a tail that is not empty
C1_Witness ==
  /\ pc = "done"
  /\ Len(inserted) = 3
  /\ {"count_js", "title_num", "moddate_tz"} \subseteq DOMAIN report
  /\ _get_startxref_position(pdf) < Len(pdf)

\* the payloads of the history h lie in buf one after the other from the
\* offset of the first one
RECURSIVE Contiguous(_, _, _)
Contiguous(h, buf, at) ==
  \/ h = <<>>
  \/ /\ h[1].at = at
     /\ SubSeq(buf, at + 1, at + Len(h[1].data)) = h[1].data
     /\ Contiguous(Tail(h), buf, at + Len(h[1].data))

\* what one insertion of the payload b at the cursor c does to the buffer
Spliced(old, new, c, b) ==
  /\ Len(new) = Len(old) + Len(b)
  /\ SubSeq(new, 1, c) = SubSeq(old, 1, c)
  /\ SubSeq(new, c + 1, c + Len(b)) = b
  /\ SubSeq(new, c + Len(b) + 1, Len(old) + Len(b)) = SubSeq(old, c + 1, Len(old))

\* C2: every insertion grows the buffer by the payload, keeps the bytes in
\* front of the cursor, writes the payload at the cursor, moves the bytes
\* from the cursor on behind the payload and advances the cursor by the
\* payload length; so the payloads of all insertions so far lie contiguous
\* in the buffer in the order of their application
C2_SingleInsert ==
  [][Len(inserted') > Len(inserted) =>
       /\ inserted'[Len(inserted')].at = insert_offset
       /\ Spliced(mm, mm', insert_offset, inserted'[Len(inserted')].data)
       /\ insert_offset' = insert_offset + Len(inserted'[Len(inserted')].data)
       /\ Contiguous(inserted', mm', inserted'[1].at)]_vars

\* C2 witness: two insertions in the middle of the buffer
C2_Witness ==
  /\ Len(inserted) = 2
  /\ inserted[1].at > 0
  /\ inserted[1].at < Len(pdf)
  /\ inserted[2].at = inserted[1].at + Len(inserted[1].data)

(***************************************************************************)
(* Properties of the edit steps of modify_file.                            *)
(***************************************************************************)
\* the request asks one feature only
Only(f) == DOMAIN features = {f}

\* C3 (as stated): for every incrementable counter, a request of current + 1
\* (within the upper bound of the counter) yields a document whose re-read
\* value of the counter is current + 1
C3_IncrementRereads ==
  pc = "done" =>
    \A f \in DOMAIN _incrementable_feats :
      /\ Only(f)
      /\ features[f] = IntV(features_current(f).v + 1)
      /\ features[f].v <= _pdfrate_feature_descriptions[f].hi.v
      => feats(f) = IntV(features_current(f).v + 1)

\* C3 failing run: count_startxref = current + 1 on DocPlain is reported as
\* applied, and the produced document re-reads the old value
C3_Witness ==
  /\ pc = "done"
  /\ pdf = DocPlain
  /\ Only("count_startxref")
  /\ features["count_startxref"] = IntV(2)
  /\ result["count_startxref"] = [success |-> TRUE, val |-> IntV(2)]
  /\ features_current("count_startxref") = IntV(1)
  /\ feats("count_startxref") = IntV(1)

\* the characters between '(' and ')' of an inserted ' /Key(...)\n'
FieldContent(data) ==
  SubSeq(data, Min({i \in 1..Len(data) : data[i] = 40}) + 1, Len(data) - 2)

\* C4 (as stated): the request {author_lc: 3, author_uc: 2} inserts an author
\* field of exactly 3 lower-case and 2 upper-case characters and none of
\* another class, whatever the document's author is
C4_ExactlyAdditive ==
  pc = "done" /\ features = [f \in {"author_lc", "author_uc"} |->
                               IF f = "author_lc" THEN IntV(3) ELSE IntV(2)] =>
    /\ Len(inserted) = 1
    /\ LitAt(inserted[1].data, 1, <<32>> \o MetaKey["author"] \o <<40>>)
    /\ CountIn(FieldContent(inserted[1].data), LowerBytes) = 3
    /\ CountIn(FieldContent(inserted[1].data), UpperBytes) = 2
    /\ Len(FieldContent(inserted[1].data)) = 5

\* C4 failing run: on DocPlain, whose author has 3 lower-case letters, the
\* request {author_lc: 3, author_uc: 2} inserts ' /Author(ZZ)\n'
C4_Witness ==
  /\ pc = "done"
  /\ pdf = DocPlain
  /\ DOMAIN features = {"author_lc", "author_uc"}
  /\ features["author_lc"] = IntV(3)
  /\ features["author_uc"] = IntV(2)
  /\ features_current("author_lc") = IntV(3)
  /\ Len(inserted) = 1
  /\ inserted[1].data = <<32,47,65,117,116,104,111,114,40,90,90,41,10>>
  /\ DOMAIN result = {"author_uc"}

\* i is the index of the byte that follows a '%PDF-1.' of s
AfterMarker(s, i) == i > 7 /\ SubSeq(s, i - 7, i - 1) = <<37,80,68,70,45,49,46>>

\* the indices at which two buffers of one length differ
DiffersAt(a, b) == {i \in 1..Len(a) : a[i] # b[i]}

\* C5: when version is the only feature requested, its value is another
\* valid version and the source has the marker, the produced buffer has the
\* length of the source and differs from it in exactly one byte, the one
\* that follows '%PDF-1.'; nothing is inserted and the cursor stays
C5_VersionInPlace ==
  /\ pc = "done"
  /\ Only("version")
  /\ features["version"].t = "int"
  /\ features["version"].v \in 1..8
  /\ features["version"].v # get_version(pdf)
  /\ \E i \in 1..Len(pdf) : AfterMarker(pdf, i) /\ pdf[i] \in DigitBytes
  => /\ Len(mm) = Len(pdf)
     /\ Cardinality(DiffersAt(mm, pdf)) = 1
     /\ \A i \in DiffersAt(mm, pdf) : AfterMarker(pdf, i)
     /\ inserted = <<>>
     /\ insert_offset = _get_startxref_position(pdf)
     /\ result = [f \in {"version"} |-> [success |-> TRUE, val |-> features["version"]]]

\* C5 witness: version 5 written over the version 3 of DocPlain
C5_Witness ==
  /\ pc = "done"
  /\ pdf = DocPlain
  /\ features = [f \in {"version"} |-> IntV(5)]
  /\ DiffersAt(mm, pdf) = {8}

\* the payloads of the history that are not padding (padding is spaces only)
Edits(h) == SelectSeq(h, LAMBDA r : \E i \in 1..Len(r.data) : r.data[i] # 32)
\* the padding of the history
Padding(h) == SelectSeq(h, LAMBDA r : \A i \in 1..Len(r.data) : r.data[i] = 32)

\* C6 (amended): a request of an int size above the current size (and within
\* the literal upper bound) is padded with spaces by the difference between
\* the requested size and the size of the buffer when the size step runs,
\* that is, the source size plus what the earlier steps of the call
\* inserted.  When the difference is positive the size is reported as
\* applied and the produced document has the requested size (the padding is
\* the full difference to the source size only when no earlier step
\* inserted); when it is not positive nothing is padded and the size is
\* reported with success = false.  A request below the current size is a
\* MinimumExceededError rejection (success = false) and pads nothing.  A call
\* that a date step ends with TypeError never runs the size step: it pads
\* nothing and returns no report.
C6_SizeGrowth ==
  "size" \in DOMAIN features /\ features["size"].t = "int" =>
  /\ pc = "raised" => Padding(inserted) = <<>> /\ result = EmptyDict
  /\ pc = "done" =>
    IF features["size"].v > Len(pdf) + SumLen(Edits(inserted))
    THEN /\ Len(Padding(inserted)) = 1
         /\ inserted[Len(inserted)].data
              = Repeat(<<32>>, features["size"].v - Len(pdf) - SumLen(Edits(inserted)))
         /\ result["size"] = [success |-> TRUE, val |-> features["size"]]
         /\ get_size(mm) = features["size"].v
    ELSE /\ Padding(inserted) = <<>>
         /\ get_size(mm) = Len(pdf) + SumLen(Edits(inserted))
         /\ IF features["size"].v > Len(pdf)
            THEN result["size"] = [success |-> FALSE, val |-> features["size"]]
            ELSE IF features["size"].v < Len(pdf)
            THEN result["size"] = [success |-> FALSE, val |-> ExcV("MinimumExceededError")]
            ELSE "size" \notin DOMAIN result

\* C6 witness: a counter and a size in one call, and the padding is what
\* the counter left of the difference
C6_Witness ==
  /\ pc = "done"
  /\ DOMAIN features = {"count_js", "size"}
  /\ features["size"].v = Len(pdf) + MaxPad
  /\ Len(inserted) = 2
  /\ Len(inserted[2].data) = MaxPad - Len(inserted[1].data)
  /\ result["size"].success

\* C6 (as stated): a request of the current size plus k pads exactly k
\* spaces and the produced document has the requested size, for any batch;
\* a request of a smaller size leaves the size unchanged, success = false
C6_ExactPadding ==
  pc = "done" /\ "size" \in DOMAIN features /\ features["size"].t = "int" =>
    /\ features["size"].v > Len(pdf) =>
         /\ SumLen(Padding(inserted)) = features["size"].v - Len(pdf)
         /\ get_size(mm) = features["size"].v
    /\ features["size"].v < Len(pdf) =>
         /\ get_size(mm) = Len(pdf)
         /\ ~result["size"].success

\* the request asks of f a value that is not the value of the source: not
\* equal to it and, for a float, not within 1e-6 of it
AsksChange(f) ==
  /\ f \in DOMAIN features
  /\ ~IsException(features[f])
  /\ ~PyEq(features_current(f), features[f])
  /\ ~(features[f].t = "float" /\ NearEq(features_current(f), features[f]))

\* f is reported as rejected with an exception of the class
Rejected(f, class) ==
  f \in DOMAIN result /\ result[f] = [success |-> FALSE, val |-> ExcV(class)]

\* the diff and validate step is over
AfterCheck == pc \notin {"stage", "check"}

\* the validator's rejection of f is in the report from the diff and validate
\* step on, and in the returned report when the call returns
RejectedAs(f, class) ==
  /\ AfterCheck => f \in DOMAIN report /\ report[f] = ExcV(class)
  /\ pc = "done" => Rejected(f, class)

FileDefinedLo == {f \in ModelFeats : _pdfrate_feature_descriptions[f].lo.k = "FileDefined"}

SameValue(f) ==
  \/ PyEq(features_current(f), features[f])
  \/ features[f].t = "float" /\ NearEq(features_current(f), features[f])

\* C9: a feature whose requested value is its current value (or a float
\* within 1e-6 of it) is never given to the validator, never enters
\* to_change or the report, and has no entry in the returned report; a
\* request of such features only inserts nothing, yields the source byte
\* for byte and an empty report
C9_NoOp ==
  pc \in {"version", "incrementable", "metadata", "moddate", "createdate", "size",
          "finalize", "done", "raised"} =>
    /\ \A f \in DOMAIN features :
         SameValue(f) =>
           /\ f \notin validated
           /\ f \notin DOMAIN to_change
           /\ f \notin DOMAIN report
           /\ f \notin DOMAIN result
    /\ (\A f \in DOMAIN features : SameValue(f)) =>
         /\ mm = pdf
         /\ inserted = <<>>
         /\ raised = ""
         /\ pc = "done" => result = EmptyDict

\* C9 witness: a float within 1e-6 of the current value, not equal to it,
\* and the call is done with an empty report
C9_Witness ==
  /\ pc = "done"
  /\ Only("pos_eof_max")
  /\ features["pos_eof_max"].t = "float"
  /\ ~PyEq(features_current("pos_eof_max"), features["pos_eof_max"])
  /\ NearEq(features_current("pos_eof_max"), features["pos_eof_max"])
  /\ result = EmptyDict
  /\ mm = pdf

(***************************************************************************)
(* Properties of check_feature_change_valid (lines 1627-1653).             *)
(***************************************************************************)
\* the value is below the lower bound / above the upper bound of the call
BelowLo(c) ==
  IF c.desc.lo.k = "FileDefined" THEN PyGt(c.current_value, c.feat_val)
  ELSE PyGt(IntV(c.desc.lo.v), c.feat_val)
AboveHi(c) ==
  IF c.desc.hi.k = "FileDefined" THEN PyGt(c.feat_val, c.current_value)
  ELSE PyGt(c.feat_val, IntV(c.desc.hi.v))

\* C10: the validator returns the outcome of the first failing check in the
\* order type, editability, bool, lower bound, upper bound: a value of the
\* wrong type is a TypeError even for a read-only feature, a read-only
\* feature is a ReadOnlyFeatureError even when the value is out of range, a
\* bool that passes both is accepted without a range check, and a value
\* that violates both bounds is a MinimumExceededError
C10_CheckOrder ==
  pc = "validated" =>
    valid = IF call.desc.type # call.feat_val.t THEN ExcV("TypeError")
            ELSE IF call.desc.edit # "y" THEN ExcV("ReadOnlyFeatureError")
            ELSE IF call.feat_val.t = "bool" THEN BoolV(TRUE)
            ELSE IF BelowLo(call) THEN ExcV("MinimumExceededError")
            ELSE IF AboveHi(call) THEN ExcV("MaximumExceededError")
            ELSE BoolV(TRUE)

\* C10 witness: a value of the right type for an editable feature that is
\* below the lower bound and above the upper bound, returned as below
\* minimum
C10_Witness ==
  /\ pc = "validated"
  /\ call.desc.type = call.feat_val.t
  /\ call.desc.edit = "y"
  /\ call.feat_val.t = "int"
  /\ BelowLo(call)
  /\ AboveHi(call)
  /\ valid = ExcV("MinimumExceededError")

(***************************************************************************)
(* Exits of modify_file.                                                   *)
(***************************************************************************)
\* C11: no per-feature outcome aborts modify_file: in every state of every
\* call no exception has left modify_file, so the call goes on to return its
\* report
C11_NeverAborts == pc # "raised" /\ raised = ""

\* C11 witness: a request of a modification timestamp accepted by the
\* validator, a source whose last /ModDate has the length of the new date,
\* and the call left by a TypeError with nothing returned
C11_Witness ==
  /\ pc = "raised"
  /\ raised = "TypeError"
  /\ Only("moddate_ts")
  /\ report = [f \in {"moddate_ts"} |-> features["moddate_ts"]]
  /\ result = EmptyDict
  /\ mm = pdf

\* C12: on every exit of modify_file reached after the buffer was mapped,
\* the return and an exception raised by a later step alike, the memory map
\* is closed and the new file is closed
C12_ReleasedOnExit == pc \in {"done", "raised"} => ~mmOpen /\ ~fileOpen

\* C12 witness: the call left by the TypeError of a date step with the
\* memory map and the new file still open
C12_Witness ==
  /\ pc = "raised"
  /\ raised = "TypeError"
  /\ mm # <<>>
  /\ mmOpen
  /\ fileOpen

(***************************************************************************)
(* The order of the steps.                                                 *)
(***************************************************************************)
\* the features that a step takes out of to_change
StepFeats(step) ==
  CASE step = "version" -> {"version"}
    [] step = "incrementable" -> DOMAIN _incrementable_feats
    [] step = "metadata" ->
         {MetaName[p][x] : p \in MetaFields, x \in {"dot", "lc", "num", "oth", "uc"}}
    [] step = "moddate" -> {"moddate_ts", "moddate_tz"}
    [] step = "createdate" -> {"createdate_ts", "createdate_tz"}
    [] step = "size" -> {"size"}
    [] OTHER -> {}

\* C13: the steps of a call run in the order validate, version, counters,
\* metadata, modification date, creation date, size, finalize (a date step
\* may end the call instead); the validator runs in the validate step only,
\* each step takes only its own features out of to_change, the version step
\* overwrites and never inserts, insertions happen in the five steps from
\* counters to size only, and once the size step is over the buffer, the
\* insertions and the cursor stay as they are, so the buffer of the size
\* step is the produced document
C13_FixedOrder ==
  [][/\ pc' # pc =>
          <<pc, pc'>> \in {<<"stage", "check">>, <<"check", "version">>,
                           <<"version", "incrementable">>, <<"incrementable", "metadata">>,
                           <<"metadata", "moddate">>, <<"moddate", "createdate">>,
                           <<"createdate", "size">>, <<"size", "finalize">>,
                           <<"finalize", "done">>,
                           <<"moddate", "raised">>, <<"createdate", "raised">>}
     /\ validated' # validated => pc = "check"
     /\ pc # "check" => /\ DOMAIN to_change' \subseteq DOMAIN to_change
                        /\ DOMAIN to_change \ DOMAIN to_change' \subseteq StepFeats(pc)
     /\ pc = "version" => inserted' = inserted /\ Len(mm') = Len(mm)
     /\ inserted' # inserted =>
          pc \in {"incrementable", "metadata", "moddate", "createdate", "size"}
     /\ (pc # "stage" /\ mm' # mm) => pc = "version" \/ inserted' # inserted
     /\ pc \in {"finalize", "done", "raised"} =>
          mm' = mm /\ inserted' = inserted /\ insert_offset' = insert_offset
    ]_vars

\* C13 witness: a returned call that inserted a counter's marker and then
\* the padding of the size step, the padding the last insertion, and the
\* produced document of the requested size
C13_Witness ==
  /\ pc = "done"
  /\ DOMAIN features = {"count_js", "size"}
  /\ Len(inserted) = 2
  /\ inserted[1].data = <<32>> \o _incrementable_feats["count_js"] \o <<10>>
  /\ inserted[2].data = Repeat(<<32>>, Len(inserted[2].data))
  /\ result["count_js"].success
  /\ result["size"].success
  /\ Len(mm) = features["size"].v

\* C14: a feature that the validator accepted and no step took out of
\* to_change (box_nonother_types, which has no step; version when the source
\* has no version marker; size when the padding is not positive) has
\* success = false and the requested value in the returned report, with
\* nothing written for it: no padding for size, no byte overwritten for
\* version, and a call that applied no feature returns the source unchanged
C14_LeftoverReported ==
  pc = "done" =>
    /\ \A f \in validated \ DOMAIN report :
         /\ f \in DOMAIN result
         /\ result[f] = [success |-> FALSE, val |-> features[f]]
         /\ f \in {"box_nonother_types", "version", "size"}
         /\ f = "size" => Padding(inserted) = <<>>
         /\ f = "version" => \A i \in 1..Len(pdf) : i + 7 <= Len(pdf) =>
                               ~LitAt(pdf, i, <<37,80,68,70,45,49,46>>) \/ mm[i + 7] = pdf[i + 7]
    /\ (\A f \in DOMAIN report : IsException(report[f])) => mm = pdf /\ inserted = <<>>

\* C14 witness: a request of box_nonother_types alone, accepted by the
\* validator, returned with success = false and the requested value, the
\* produced document the source
C14_Witness ==
  /\ pc = "done"
  /\ Only("box_nonother_types")
  /\ "box_nonother_types" \in validated
  /\ report = EmptyDict
  /\ result = [f \in {"box_nonother_types"} |->
                 [success |-> FALSE, val |-> features["box_nonother_types"]]]
  /\ mm = pdf

(***************************************************************************)
(* The source file and the produced document.                              *)
(***************************************************************************)
\* the data of the insertions of a history, one after the other
RECURSIVE Payload(_)
Payload(h) == IF h = <<>> THEN <<>> ELSE h[1].data \o Payload(Tail(h))

\* C15: no step changes the bytes of the source file, and from the moment
\* the new file is mapped its bytes are the bytes of the source except for
\* the applied edits: the version digit when the version step wrote it, and
\* the inserted data in one block at the place of the last startxref; when
\* no feature is applied the new file is the source byte for byte
C15_SourceKept ==
  /\ [](pc # "stage" =>
          /\ Spliced(EntryBuffer, mm, _get_startxref_position(pdf), Payload(inserted))
          /\ (\A f \in DOMAIN report : IsException(report[f])) => mm = pdf)
  /\ [][pdf' = pdf]_vars

\* C15 witness: a returned call that overwrote the version digit and
\* inserted a counter's marker: the produced document differs from the
\* source in both places
C15_Witness ==
  /\ pc = "done"
  /\ DOMAIN features = {"version", "count_js"}
  /\ result["version"].success
  /\ result["count_js"].success
  /\ mm[VersionDigitIndex(pdf)] # pdf[VersionDigitIndex(pdf)]
  /\ Len(mm) = Len(pdf) + 5

(***************************************************************************)
(* Dense requests.                                                        *)
(***************************************************************************)
\* a float x, held as floor and rest, as a value of the declared type: an
\* int is the whole number nearest to x, of two equally near ones the even
\* one; a bool is false exactly when the magnitude of x is below 0.01; a
\* float is x
Typed(type, x) ==
  CASE type = "int" ->
         IntV(CHOOSE n \in {x.n, x.n + 1} :
                LET d == Abs((n - x.n) * FloatUnit - x.u)
                IN d < FloatUnit - d \/ (d = FloatUnit - d /\ n % 2 = 0))
    [] type = "bool" -> BoolV(100 * Abs(x.n * FloatUnit + x.u) >= FloatUnit)
    [] type = "float" -> FloatV(x.n * FloatUnit + x.u)

\* the element of a dense request as a float: what a numpy array holds, and
\* the number that a list element stands for
AsFloat64(kind, e) ==
  IF kind = "ndarray" THEN e
  ELSE IF e.t = "float" THEN [n |-> e.v \div FloatUnit, u |-> e.v % FloatUnit]
  ELSE [n |-> e.v, u |-> 0]

\* the second call is given the dictionary that the dense request of the
\* first call stands for, and has ended
SparseAfterDense ==
  /\ first.calls = 1
  /\ first.request.kind # "dict"
  /\ request.kind = "dict"
  /\ pc \in {"done", "raised"}

LastMarker(s) ==
  LET at == {i \in 2..Len(s) :
               /\ LitAt(s, i, <<115,116,97,114,116,120,114,101,102>>)
               /\ s[i - 1] \notin WordBytes
               /\ i + 9 <= Len(s)
               /\ s[i + 9] \notin WordBytes}
  IN IF at = {} THEN Len(s) ELSE (CHOOSE i \in at : \A j \in at : j <= i) - 1

EditProcedures ==
  UNION {StepFeats(s) : s \in {"version", "incrementable", "metadata", "moddate",
                               "createdate", "size"}}

\* C18: the features with an edit step are 68, they are the features that
\* get_feature_mask_numpy sets to 1, and no feature that the validator
\* accepted is returned as not applied unless it has a step (which then found
\* nothing to write)
C18_EditableHaveProcedure ==
  /\ Cardinality(EditProcedures) = 68
  /\ EditProcedures = {_pdfrate_feature_names[i] : i \in {j \in DOMAIN get_feature_mask_numpy :
                                                           get_feature_mask_numpy[j] = 1}}
  /\ pc = "done" =>
       \A f \in DOMAIN result :
         (~result[f].success /\ ~IsException(result[f].val)) => f \in EditProcedures

\* C18 failing run: box_nonother_types is set to 1 by the mask, no step
\* applies it, and a request that the validator accepts comes back with
\* success = false
C18_Witness ==
  /\ pc = "done"
  /\ \E i \in DOMAIN get_feature_mask_numpy :
       /\ _pdfrate_feature_names[i] = "box_nonother_types"
       /\ get_feature_mask_numpy[i] = 1
  /\ "box_nonother_types" \notin EditProcedures
  /\ features = [f \in {"box_nonother_types"} |->
                   IntV(features_current("box_nonother_types").v + 1)]
  /\ check_feature_change_valid("box_nonother_types", features["box_nonother_types"], pdf)
       = BoolV(TRUE)
  /\ ~result["box_nonother_types"].success

(***************************************************************************)
(* The report and the produced document.                                   *)
(***************************************************************************)
\* C20: every feature that the returned report marks success = true with a
\* value has that value in the feature vector read again from the produced
\* document
C20_ReportedIsReread ==
  pc = "done" =>
    \A f \in DOMAIN result : result[f].success => feats(f) = result[f].val

\* C20 failing run: author_lc = 0 on a source whose author has lower-case
\* letters is reported as applied, nothing was inserted, and the produced
\* document reads the count of the source again
C20_Witness ==
  /\ pc = "done"
  /\ Only("author_lc")
  /\ features["author_lc"] = IntV(0)
  /\ features_current("author_lc").v > 0
  /\ result["author_lc"] = [success |-> TRUE, val |-> IntV(0)]
  /\ inserted = <<>>
  /\ feats("author_lc") = features_current("author_lc")

(***************************************************************************)
(* Successive calls on one object.                                         *)
(***************************************************************************)
\* the second call is given what the first call was given
SameRequest ==
  /\ first.calls = 1
  /\ request.kind = first.request.kind
  /\ request.val = first.request.val

\* C19: a second call of modify_file on the same object with the same
\* request starts its cursor where the first call started it and ends as the
\* first call ended: the same bytes in the new file, the same report, the
\* same exception if any
C19_NoStateAcrossCalls ==
  SameRequest =>
    /\ pc = "check" => insert_offset = first.start
    /\ pc \in {"done", "raised"} =>
         /\ mm = first.mm
         /\ result = first.result
         /\ raised = first.raised

\* C19 witness: the first call inserted and left the cursor advanced, and
\* the second call with the same request has returned the same document and
\* the same report
C19_Witness ==
  /\ SameRequest
  /\ pc = "done"
  /\ inserted # <<>>
  /\ insert_offset > first.start
  /\ mm # pdf
  /\ mm = first.mm
  /\ result # EmptyDict
  /\ result = first.result

(***************************************************************************)
(* The edit steps one by one.                                              *)
(***************************************************************************)
\* the version step has reported the requested version v, 1 <= v <= 8, as
\* written
VersionWritten ==
  /\ pc \notin {"stage", "check", "version"}
  /\ "version" \in DOMAIN report
  /\ report["version"].t = "int"
  /\ report["version"].v \in 1..8

\* C21: when the version step reports success for a requested version v,
\* 1 <= v <= 8, the byte at the position of the digit that follows '%PDF-1.'
\* is the ASCII digit of v, so the buffer reads '%PDF-1.<v>' there and
\* get_version on the produced document returns v
C21_VersionDigit ==
  VersionWritten =>
    /\ mm[VersionDigitIndex(pdf)] = 48 + report["version"].v
    /\ LitAt(mm, VersionDigitIndex(pdf) - 7, <<37,80,68,70,45,49,46>>)
    /\ get_version(mm) = report["version"].v

\* C21 failing run: version 5 asked of DocPlain, whose marker reads
\* '%PDF-1.3'; the step has written the byte of value 5 in the place of the
\* digit, the report says version 5 was applied, and the produced document
\* has no marker followed by a digit left, so get_version returns 0
C21_Witness ==
  /\ pc = "done"
  /\ pdf = DocPlain
  /\ features = [f \in {"version"} |-> IntV(5)]
  /\ result = [f \in {"version"} |-> [success |-> TRUE, val |-> IntV(5)]]
  /\ mm[VersionDigitIndex(pdf)] = 5
  /\ get_version(mm) = 0

\* the counter features that wait in to_change
CountersToChange == DOMAIN to_change \cap DOMAIN _incrementable_feats

\* one iteration of the counter step on feat: one insertion at the cursor of
\* delta copies of unit, and feat moves from to_change to the report
CounterInserts(feat, unit) ==
  /\ inserted' = Append(inserted,
                        [at |-> insert_offset,
                         data |-> Repeat(unit, to_change[feat].v - features_current(feat).v)])
  /\ to_change' = Del(to_change, {feat})
  /\ report' = Put(report, {feat}, to_change)

\* C22 (amended): in the counter step every incrementable feature in
\* to_change has delta = desired - current > 0 (the validator rejects a lower
\* value and the diff drops an equal one, so delta <= 0 never reaches the
\* step), and for each of them exactly one insertion is made whose payload
\* is delta repetitions of a space, the feature's marker string and a line
\* terminator, and the feature is reported successful; the step ends when no
\* counter is left in to_change
C22_CounterInserts ==
  /\ [](pc \notin {"stage", "check"} =>
          \A f \in CountersToChange : to_change[f].v > features_current(f).v)
  /\ [](pc \in {"metadata", "moddate", "createdate", "size", "finalize", "done"} =>
          CountersToChange = {})
  /\ [](pc = "done" =>
          \A f \in DOMAIN features \cap DOMAIN _incrementable_feats :
            features[f].t = "int" /\ features[f].v <= features_current(f).v =>
              f \notin DOMAIN result \/ ~result[f].success)
  /\ [][pc = "incrementable" =>
          \/ pc' = "metadata" /\ UNCHANGED <<inserted, to_change, report>>
          \/ \E feat \in CountersToChange :
               CounterInserts(feat, <<32>> \o _incrementable_feats[feat] \o <<10>>)]_vars

\* C22 witness: count_page raised by 2 on DocPlain: one insertion of
\* ' /Page\n /Page\n', reported as applied
C22_Witness ==
  /\ pc = "done"
  /\ pdf = DocPlain
  /\ features = [f \in {"count_page"} |-> IntV(features_current("count_page").v + 2)]
  /\ Len(inserted) = 1
  /\ inserted[1].data = <<32,47,80,97,103,101,10,32,47,80,97,103,101,10>>
  /\ result["count_page"] = [success |-> TRUE, val |-> features["count_page"]]

\* C22 (as stated): for each incrementable feature in to_change, if
\* delta > 0 exactly one insertion is made whose payload is delta
\* repetitions of the marker string followed by a line terminator and the
\* feature is reported successful; if delta <= 0 nothing is inserted and the
\* feature stays in to_change, to be reported as not implemented
C22_CounterMarkers ==
  [][pc = "incrementable" =>
       \/ pc' = "metadata" /\ UNCHANGED <<inserted, report>>
       \/ \E feat \in CountersToChange :
            IF to_change[feat].v > features_current(feat).v
            THEN CounterInserts(feat, _incrementable_feats[feat] \o <<10>>)
            ELSE UNCHANGED <<inserted, to_change, report>>]_vars

\* the class-count sub-features of the field p that wait in to_change
FieldToChange(p) ==
  {f \in DOMAIN to_change \cap MetaNames :
     MetaPrefix(f) = p /\ MetaSuffix(f) \in {"dot", "lc", "num", "oth", "uc"}}

\* C23: in the metadata step, for each of the six fields with at least one
\* class-count sub-feature in to_change exactly one insertion is made, the
\* field's template around the concatenation of count copies of the class
\* character of every requested class; all requested sub-features of the
\* field leave to_change and are reported successful together, and a field
\* with no requested sub-feature causes no insertion
C23_FieldInsertedOnce ==
  [][pc = "metadata" =>
       \/ /\ pc' = "moddate"
          /\ \A p \in MetaFields : FieldToChange(p) = {}
          /\ UNCHANGED <<inserted, to_change, report>>
       \/ \E p \in MetaFields :
            /\ FieldToChange(p) # {}
            /\ inserted' = Append(inserted,
                             [at |-> insert_offset,
                              data |-> <<32>> \o MetaKey[p] \o <<40>>
                                       \o Addendum(MetadataFeats(p)) \o <<41, 10>>])
            /\ to_change' = Del(to_change, FieldToChange(p))
            /\ report' = Put(report, FieldToChange(p), to_change)]_vars

\* C23 failing run: author_uc = 0 asked of DocPlain, whose author has one
\* upper-case letter: the sub-feature passed the validator and is reported
\* as applied, and the step made no insertion for the author field
C23_Witness ==
  /\ pc = "done"
  /\ pdf = DocPlain
  /\ features = [f \in {"author_uc"} |-> IntV(0)]
  /\ features_current("author_uc") = IntV(1)
  /\ validated = {"author_uc"}
  /\ result = [f \in {"author_uc"} |-> [success |-> TRUE, val |-> IntV(0)]]
  /\ inserted = <<>>
  /\ mm = pdf

(***************************************************************************)
(* The date steps.                                                         *)
(***************************************************************************)
\* what the last insertion wrote
LastData(h) == h[Len(h)].data

\* the date step at pc inserts a date field when only the feature asked of
\* its two features ts and tz is in to_change
InsertsDateFor(step, asked, other) ==
  /\ pc = step
  /\ asked \in DOMAIN to_change
  /\ other \notin DOMAIN to_change
  /\ Len(inserted') = Len(inserted) + 1

\* the rendering of the offset tz that ends the date field data, whose last
\* tail bytes close the field: 'Z' for a zero offset, a sign first otherwise
EndsWithOffset(data, tz, tail) ==
  LET end == Len(data) - tail
  IN IF tz = 0 THEN data[end] = 90 /\ data[end - 1] \in DigitBytes
     ELSE \E sep \in {39, 58} :
            /\ Len(TzStr(tz, sep)) < end
            /\ SubSeq(data, end - Len(TzStr(tz, sep)) + 1, end) = TzStr(tz, sep)

\* C24: the two date steps are independent, and an unrequested component
\* comes from the current value of the same date: with only createdate_tz
\* requested the timestamp written is the document's current creation
\* timestamp, with only createdate_ts requested the offset written is the
\* document's current creation offset, and the same for the modification
\* date with the modification timestamp and offset
C24_SameDateSource ==
  [][/\ InsertsDateFor("createdate", "createdate_tz", "createdate_ts") =>
          LitAt(LastData(inserted'), 17, TsStr(get_createdate_ts(pdf), TRUE))
     /\ InsertsDateFor("createdate", "createdate_ts", "createdate_tz") =>
          EndsWithOffset(LastData(inserted'), get_createdate_tz(pdf), 17)
     /\ InsertsDateFor("moddate", "moddate_tz", "moddate_ts") =>
          LitAt(LastData(inserted'), 12, TsStr(get_moddate_ts(pdf), FALSE))
     /\ InsertsDateFor("moddate", "moddate_ts", "moddate_tz") =>
          EndsWithOffset(LastData(inserted'), get_moddate_tz(pdf), 1)
     /\ pc = "moddate" => \A f \in {"createdate_ts", "createdate_tz"} :
          f \in DOMAIN to_change <=> f \in DOMAIN to_change'
     /\ pc = "createdate" => \A f \in {"moddate_ts", "moddate_tz"} :
          f \in DOMAIN report <=> f \in DOMAIN report']_vars

\* C24 failing run: createdate_tz = 3600 asked of DocDates, whose creation
\* date is one day after its modification date: the creation date inserted
\* carries the modification timestamp, '2010-01-01T12:00:00'
C24_Witness ==
  /\ pc = "done"
  /\ pdf = DocDates
  /\ features = [f \in {"createdate_tz"} |-> IntV(3600)]
  /\ result = [f \in {"createdate_tz"} |-> [success |-> TRUE, val |-> IntV(3600)]]
  /\ get_createdate_ts(pdf) = get_moddate_ts(pdf) + 86400
  /\ Len(inserted) = 1
  /\ LitAt(inserted[1].data, 1, <<60,120,97,112,58,67,114,101,97,116,101,68,97,116,101,62>>
                                \o TsStr(get_moddate_ts(pdf), TRUE))

\* the offset tz as a sign, the whole hours in two digits, the separator sep
\* and the whole minutes in two digits
SignedHourMinute(tz, sep) ==
  <<IF tz > 0 THEN 43 ELSE 45>> \o PadLeft(StrInt(Abs(tz) \div 3600), 2)
  \o <<sep>> \o PadLeft(StrInt((Abs(tz) % 3600) \div 60), 2)

\* the date step at pc inserts a date field; tz is the offset it renders,
\* the one requested or else the current one
InsertsDate(step) == pc = step /\ Len(inserted') = Len(inserted) + 1
OffsetOf(asked, current) ==
  IF asked \in DOMAIN to_change THEN to_change[asked].v ELSE current

\* the date field data ends, before its last tail bytes, with the offset tz
\* rendered in a fixed width: 'Z', or the sign, hours, sep and minutes
FixedWidthOffset(data, width, tz, sep, tail) ==
  /\ Len(data) = width + (IF tz = 0 THEN 1 ELSE 6) + tail
  /\ SubSeq(data, width + 1, Len(data) - tail)
       = (IF tz = 0 THEN <<90>> ELSE SignedHourMinute(tz, sep))

\* C25: the date string written has a fixed width that depends only on
\* whether the offset is zero: a zero offset is the single character 'Z', a
\* nonzero offset of s seconds is a sign, the two-digit whole hours
\* floor(|s| / 3600), a separator and the two-digit whole minutes
\* floor((|s| mod 3600) / 60), with one separator for a date whether the
\* offset was requested or taken from the current value
C25_FixedWidthDate ==
  [][/\ InsertsDate("moddate") =>
          FixedWidthOffset(LastData(inserted'), 25,
                           OffsetOf("moddate_tz", get_moddate_tz(pdf)), 39, 1)
     /\ InsertsDate("createdate") =>
          FixedWidthOffset(LastData(inserted'), 35,
                           OffsetOf("createdate_tz", get_createdate_tz(pdf)), 58, 17)]_vars

\* C25 failing run: moddate_tz = 3600 asked of DocPlain, which has no date:
\* the date field inserted is "/ModDate(D:19691231235959+1.0'0.0)", the
\* hours and minutes written as the floats 1.0 and 0.0
C25_Witness ==
  /\ pc = "done"
  /\ pdf = DocPlain
  /\ features = [f \in {"moddate_tz"} |-> IntV(3600)]
  /\ result = [f \in {"moddate_tz"} |-> [success |-> TRUE, val |-> IntV(3600)]]
  /\ Len(inserted) = 1
  /\ inserted[1].data = <<47,77,111,100,68,97,116,101,40,68,58,49,57,54,57,49,50,51,49,
                          50,51,53,57,53,57,43,49,46,48,39,48,46,48,41>>

\* the two date steps, their features and the step that follows each
DateSteps == {"moddate", "createdate"}
DateFeats(step) ==
  IF step = "moddate" THEN {"moddate_ts", "moddate_tz"}
  ELSE {"createdate_ts", "createdate_tz"}
AfterDate(step) == IF step = "moddate" THEN "createdate" ELSE "size"

\* the last date field of the source that the step looks at: its offset in
\* the source as digits and its content, or nothing
OldDate(step) ==
  IF step = "moddate"
  THEN LastDate(DateLines(TagFields(pdf, 1, <<47,77,111,100,68,97,116,101,40>>, <<41>>)))
  ELSE LastDate(DateLines(CreateDateFields(pdf, 1)))

\* the date string inside the date field data of the step
DateOf(step, data) ==
  IF step = "moddate" THEN SubSeq(data, 10, Len(data) - 1)
  ELSE SubSeq(data, 17, Len(data) - 17)

\* the step at pc is a date step with a feature of its own in to_change
DateStepActs == pc \in DateSteps /\ DateFeats(pc) \cap DOMAIN to_change # {}

\* C26: in a date step, if the last existing date field of the document has
\* the length of the new date string, the new string is written over it in
\* place, the buffer length and the cursor stay and no byte outside of the
\* field changes; otherwise (no field, or another length) a new date field is
\* inserted at the cursor.  In both cases the step completes and the call
\* goes on with the steps that follow, up to the size step
C26_OverwriteOrInsert ==
  [][DateStepActs =>
       /\ pc' = AfterDate(pc)
       /\ \/ /\ OldDate(pc) # <<>>
             /\ inserted' = inserted
             /\ insert_offset' = insert_offset
             /\ Len(mm') = Len(mm)
             /\ \E q \in 0..Len(mm) :
                  DiffersAt(mm', mm) \subseteq (q + 1)..(q + Len(OldDate(pc)[2]))
          \/ /\ Len(inserted') = Len(inserted) + 1
             /\ inserted'[Len(inserted')].at = insert_offset
             /\ OldDate(pc) # <<>> =>
                  Len(DateOf(pc, LastData(inserted'))) # Len(OldDate(pc)[2])]_vars

\* C26 failing run: createdate_ts = 86400 asked of DocDates: the new date
\* '1970-01-02T00:00:00Z' has the length of the old one, the step positions
\* the map on the old date, and the call ends there with TypeError, the
\* buffer as the source and the size step never taken
C26_Witness ==
  /\ pc = "raised"
  /\ raised = "TypeError"
  /\ pdf = DocDates
  /\ features = [f \in {"createdate_ts"} |-> IntV(86400)]
  /\ OldDate("createdate") = <<StrInt(84), SubSeq(pdf, 85, 104)>>
  /\ mmTell = 84
  /\ mm = pdf
  /\ result = EmptyDict

\* C27: later steps see offsets already shifted by earlier ones: when the
\* counter or metadata step has inserted k > 0 bytes and the existing date
\* field lies at an offset p of the source at or behind the start of the
\* cursor, the in-place overwrite of the date step is applied at p + k in
\* the working buffer, where the field now is, and not at p
C27_ShiftedOverwrite ==
  [][/\ DateStepActs
     /\ inserted' = inserted
     /\ insert_offset > _get_startxref_position(pdf)
     /\ IntOf(OldDate(pc)[1]) >= _get_startxref_position(pdf)
     => mmTell' = IntOf(OldDate(pc)[1]) + (insert_offset - _get_startxref_position(pdf))]_vars

\* C27 failing run: count_page + 1 and createdate_ts = 86400 asked of
\* DocDates, whose creation date is behind the cursor: the counter step has
\* inserted 7 bytes, the old date is now at 91, and the date step has
\* positioned the map at 84, the offset of the date in the source
C27_Witness ==
  /\ pc = "raised"
  /\ pdf = DocDates
  /\ DOMAIN features = {"count_page", "createdate_ts"}
  /\ features["createdate_ts"] = IntV(86400)
  /\ Len(inserted) = 1
  /\ inserted[1].at = _get_startxref_position(pdf)
  /\ Len(inserted[1].data) = 7
  /\ IntOf(OldDate("createdate")[1]) = 84
  /\ SubSeq(mm, 92, 111) = OldDate("createdate")[2]
  /\ SubSeq(mm, 85, 104) # OldDate("createdate")[2]
  /\ mmTell = 84

(***************************************************************************)
(* Validation and the report.                                              *)
(***************************************************************************)
\* the validator's decision on the requested value of f against the source
Decision(f) == check_feature_change_valid(f, features[f], pdf)

\* C28: all validation precedes all editing: the validator decides in the
\* diff and validate step only, when the buffer is still the source and
\* nothing was inserted, and the later steps change no decision; each
\* decision is the validator's on the requested value and the value of the
\* feature in the unmodified source, whatever other features the request
\* holds: an accepted feature enters to_change with its requested value, a
\* rejected one the report with the validator's exception
C28_ValidateFirst ==
  /\ [](AfterCheck =>
          \A f \in validated :
            IF Decision(f) = BoolV(TRUE)
            THEN \/ f \in DOMAIN to_change /\ to_change[f] = features[f]
                 \/ f \in DOMAIN report /\ report[f] = features[f]
            ELSE f \notin DOMAIN to_change /\ report[f] = Decision(f))
  /\ [][/\ validated' # validated => pc = "check" /\ mm = pdf /\ inserted = <<>>
        /\ pc = "check" => validated' = {f \in DOMAIN features : AsksChange(f)}
                           /\ mm' = mm /\ inserted' = inserted
        /\ AfterCheck =>
             \A f \in validated :
               /\ (f \in DOMAIN report' /\ IsException(report'[f]))
                    <=> (f \in DOMAIN report /\ IsException(report[f]))
               /\ f \in DOMAIN to_change' => f \in DOMAIN to_change]_vars

\* C28 witness: size below the current size and count_page + 1 in one
\* request: size is rejected, count_page is accepted and applied, each as
\* it is when requested alone
C28_Witness ==
  /\ pc = "done"
  /\ pdf = DocPlain
  /\ features = [f \in {"count_page", "size"} |->
                   IF f = "size" THEN IntV(Len(pdf) - 1)
                   ELSE IntV(features_current("count_page").v + 1)]
  /\ validated = {"count_page", "size"}
  /\ Rejected("size", "MinimumExceededError")
  /\ result["count_page"] = [success |-> TRUE, val |-> features["count_page"]]
  /\ Len(inserted) = 1

\* the features of the returned report by what became of them: rejected by
\* the validator, applied by a step, left in to_change
RejectedFeats == {f \in DOMAIN report : IsException(report[f])}
AppliedFeats == {f \in DOMAIN report : ~IsException(report[f])}
LeftoverFeats == DOMAIN to_change

\* the report is split into the three kinds, and success is for the applied
ReportSplit ==
  /\ RejectedFeats = {f \in validated : Decision(f) # BoolV(TRUE)}
  /\ AppliedFeats \cup LeftoverFeats = {f \in validated : Decision(f) = BoolV(TRUE)}
  /\ AppliedFeats \cap LeftoverFeats = {}
  /\ RejectedFeats \cup AppliedFeats \cup LeftoverFeats = DOMAIN result
  /\ \A f \in DOMAIN result : result[f].success <=> f \in AppliedFeats

\* C29 (amended): when modify_file returns, the key set of the report is
\* exactly the set of requested features whose requested value differs from
\* the current one (near-equal reals and requested values that are
\* exceptions excluded); each such feature has one entry, with
\* success = true if and only if the feature was accepted by the validator
\* and consumed by one of the steps; rejected, applied and leftover features
\* are pairwise disjoint
C29_ReportPartition ==
  pc = "done" =>
    /\ DOMAIN result = {f \in DOMAIN features : AsksChange(f)}
    /\ ReportSplit

\* C29 witness: count_page + 1, size + 1 and author_len + 1 in one request:
\* author_len is rejected, count_page applied, and size, reached already by
\* the bytes of the counter step, is left over
C29_Witness ==
  /\ pc = "done"
  /\ DOMAIN features = {"author_len", "count_page", "size"}
  /\ features["size"] = IntV(Len(pdf) + 1)
  /\ RejectedFeats = {"author_len"}
  /\ AppliedFeats = {"count_page"}
  /\ LeftoverFeats = {"size"}
  /\ result["count_page"].success
  /\ ~result["size"].success
  /\ Rejected("author_len", "ReadOnlyFeatureError")

\* C29 (as stated): when modify_file returns, the key set of the report is
\* exactly the set of requested features whose requested value differs from
\* the current one (near-equal reals excluded), with success = true if and
\* only if accepted and consumed, the three kinds pairwise disjoint
C29_ReportKeys ==
  pc = "done" =>
    /\ DOMAIN result = {f \in DOMAIN features : ~SameValue(f)}
    /\ ReportSplit

\* C30: whenever the report marks size successful with the requested value
\* S, the produced document is exactly S bytes long, whichever other
\* features were applied in the call; and in every outcome, the call
\* returned or ended by an exception, the produced document is at least as
\* long as the source: the buffer never shrinks
C30_SizeReached ==
  /\ pc = "done" /\ "size" \in DOMAIN result /\ result["size"].success =>
       /\ result["size"].val = features["size"]
       /\ get_size(mm) = features["size"].v
  /\ pc # "stage" =>
       /\ get_size(mm) >= get_size(pdf)
       /\ get_size(mm) = get_size(pdf) + SumLen(inserted)

\* C30 witness: version, count_js + 1 and size + MaxPad in one request on
\* DocPlain: the version is overwritten, the counter step inserts 5 bytes,
\* the size step pads the rest, and the document has the requested size
C30_Witness ==
  /\ pc = "done"
  /\ pdf = DocPlain
  /\ DOMAIN features = {"count_js", "size", "version"}
  /\ features["size"] = IntV(Len(pdf) + MaxPad)
  /\ \A f \in DOMAIN features : result[f].success
  /\ Len(inserted) = 2
  /\ SumLen(inserted) = MaxPad
  /\ get_size(mm) = Len(pdf) + MaxPad
====
